---- MODULE Spec2Model ----
(***************************************************************************)
(* A model of the streaming layer of audio-mp3: the Encoder session        *)
(* (enc.go), the WAV header writer and parser and the DecodeToWav          *)
(* orchestrator (example/dec-exam.go), and the Decoder session around the  *)
(* mpg123 feed/read wrapper.  The codec engines are opaque: each engine    *)
(* call is a nondeterministic choice over the results its interface       *)
(* allows.                                                                 *)
(***************************************************************************)
EXTENDS Integers, Sequences, FiniteSets, TLC

VARIABLES
    enc,        \* Encoder: [handle, remainData, NumChannels]
    encLast,    \* the last call made on the Encoder session and what it did
    fedBytes,   \* every byte handed to the encode engine so far, in order
    accepted,   \* every input byte of the Encode calls that passed the argument checks
    dw,         \* DecodeToWav: position, locals, Decoder session, return values
    src,        \* the source stream of DecodeToWav: reads left, last read result
    dst,        \* the destination of DecodeToWav: bytes, position, operation log
    eng,        \* the decode engine: current output format, bytes produced so far
    hd,         \* header round trip: inputs, header bytes, parse result
    lame,       \* the encode engine: buffered samples flushed out, lame_close calls
    wav,        \* ParseWavHeader on a chunked stream: layout, stream bytes, parse results
    dec,        \* Decoder: [handle, SampleRate, NumChannels, SampleBitDepth]
    decLast,    \* the last call made on the Decoder session and what it did
    dr,         \* one mpg123_DecodeWrapped call, read by read, and the Decode around it
    once,       \* mpg123once, mpg123Initialized and the goroutines calling NewDecoder
    ne,         \* one NewEncoder call: config, what the engine was given, the session
    ew          \* EncodeFromWav: position, config, locals, call log, return values

encVars == <<enc, encLast, fedBytes, accepted, lame>>
dwVars  == <<dw, src, dst, eng>>
hdVars  == <<hd>>
wavVars == <<wav>>
decVars == <<dec, decLast>>
drVars  == <<dr>>
onceVars == <<once>>
neVars  == <<ne>>
ewVars  == <<ew>>
vars    == <<enc, encLast, fedBytes, accepted, dw, src, dst, eng, hd, lame, wav, dec, decLast,
             dr, once, ne, ew>>

-----------------------------------------------------------------------------
(* Bounds of the model *)

\* longest input handed to one Encode call
MaxChunk == 4
\* most input bytes accepted by one Encoder session
MaxTotal == 7
\* most reads DecodeToWav makes on its source before the source ends
MaxSrcReads == 2
\* most mpg123_read calls the engine answers within one Decode call
MaxDrain == 2
\* longest input length of the run 0..MaxEstimateIn a caller asks an estimate for
MaxEstimateIn == 17

(* Program constants *)

SampleBitDepth == 16
WavHeaderSize == 44

-----------------------------------------------------------------------------
(* Helpers *)

\* the bytes k+1 .. k+n: input byte number i of a session carries the value i,
\* so that a dropped, duplicated or reordered byte shows
Fresh(k, n) == [i \in 1..n |-> k + i]

-----------------------------------------------------------------------------
(* Encoder session (enc.go) *)

toErrorNoCatchAll(errNo) ==
    CASE errNo = -1 -> "ErrorBufferTooSmall"
      [] errNo = -2 -> "ErrorMalloc"
      [] errNo = -3 -> "ErrorParamsNotInitialized"
      [] errNo = -4 -> "ErrorPsychoAcousticProblems"
      [] errNo = -5 -> "ErrorUnknown"
      [] OTHER      -> "nil"

\* func toError(errNo C.int) error
toError(errNo) ==
    CASE errNo = -1 -> "ErrorBufferTooSmall"
      [] errNo = -2 -> "ErrorMalloc"
      [] errNo = -3 -> "ErrorParamsNotInitialized"
      [] errNo = -4 -> "ErrorPsychoAcousticProblems"
      [] OTHER      -> "ErrorUnknown"

BytesPerSample(NumChannels) == (NumChannels * SampleBitDepth) \div 8

EstimateOutBufBytesNoExtraSample(NumChannels, inBytes) ==
    LET numSamples == inBytes \div BytesPerSample(NumChannels)
    IN  ((5 * numSamples) \div 4) + 7200

\* int(1.25*float64(numSamples)) + 7200; 1.25*n is exact in float64 for the
\* sample counts a Go slice can hold, so the truncation is floor(5n/4)
EstimateOutBufBytes(NumChannels, inBytes) ==
    LET numSamples == (inBytes \div BytesPerSample(NumChannels)) + 1
    IN  ((5 * numSamples) \div 4) + 7200

JoinCarryAppended(remainData, in) == in \o remainData

\* in = append(enc.remainData, in...)
JoinCarry(remainData, in) == remainData \o in

\* remain := szIn % bytesPerSample; szIn -= remain
AlignedLen(szIn, bytesPerSample) == szIn - (szIn % bytesPerSample)

NewRemainKeepsOld(oldRemain, joined, szIn) ==
    oldRemain \o SubSeq(joined, szIn + 1, Len(joined))

\* enc.remainData = nil; enc.remainData = append(enc.remainData, in[szIn:]...)
NewRemain(oldRemain, joined, szIn) == SubSeq(joined, szIn + 1, Len(joined))

NothingToEncodeNever(szIn) == FALSE

\* if szIn == 0 { return 0, nil }
NothingToEncode(szIn) == szIn = 0

\* the statuses below 0 an engine call may answer: the four of the table and
\* two it does not name
StatusCodes == {-6, -5, -4, -3, -2, -1}

\* what lame_encode_buffer[_interleaved] may return: a status below 0 or a
\* byte count; a nil handle is refused with -3
EncodeEngineResults(handle) ==
    IF handle = "nil" THEN {-3} ELSE StatusCodes \cup {0, 1}

\* what lame_encode_flush may return
FlushEngineResults(handle) ==
    IF handle = "nil" THEN {-3} ELSE StatusCodes \cup {0, 1}

\* what lame_get_frameNum may return: a status below 0 or a frame count; a nil
\* handle is refused or counts no frame
FrameNumEngineResults(handle) ==
    IF handle = "nil" THEN {-3, 0} ELSE StatusCodes \cup {0, 1, 2}

\* output capacities a caller tries: none, one byte short of the estimate for
\* the input, exactly the estimate, and the estimate for one more frame
CapChoices(NumChannels, szIn) ==
    { 0,
      EstimateOutBufBytes(NumChannels, szIn) - 1,
      EstimateOutBufBytes(NumChannels, szIn),
      EstimateOutBufBytes(NumChannels, szIn + 2 * BytesPerSample(NumChannels)) }

\* input lengths a caller asks an estimate for, besides 0..MaxEstimateIn
LargeInputs == {2048, 4096, 176400, 400000000}

\* afterFlush and flushedOk keep one fact of the session's history, before and
\* after the call: a Flush has succeeded and no Encode call was made since
NoCall == [op |-> "none", in |-> <<>>, carry |-> <<>>, szOut |-> 0, n |-> 0,
           err |-> "nil", engineCalled |-> FALSE, fedLen |-> 0, inBytes |-> 0,
           afterFlush |-> FALSE, flushedOk |-> FALSE, status |-> 0]

\* the engine after lame_encode_buffer[_interleaved] took samples in
LameAfterEncode(l) == [l EXCEPT !.drained = FALSE]

\* the engine after lame_encode_flush answered bytesOut
LameAfterFlush(l, bytesOut) == [l EXCEPT !.drained = (bytesOut >= 0) \/ l.drained]

\* what lame_encode_flush answers when nothing was fed since the last flush
DrainedFlushResults == {0}

EncInit ==
    /\ enc \in { [handle |-> "open", remainData |-> <<>>, NumChannels |-> c] : c \in {1, 2} }
    /\ encLast = NoCall
    /\ fedBytes = <<>>
    /\ accepted = <<>>
    /\ lame = [drained |-> FALSE, closed |-> 0, inits |-> 1]

EmptyInputNever(in) == FALSE

\* if szIn == 0 { return 0, errors.New("input buffer is empty") }
EmptyInput(in) == Len(in) = 0

OutputTooSmallOnlyWhenEmpty(szOut, need) == szOut = 0

OutputTooSmallOffByOne(szOut, need) == szOut <= need

\* if szOut < enc.EstimateOutBufBytes(...) { return 0, errors.New("output buffer is too small") }
OutputTooSmall(szOut, need) == szOut < need

\* func (enc *Encoder) Encode(in, out []byte) (n int, err error)
EncoderEncode(in, szOut, nWr) ==
    LET call == [op |-> "Encode", in |-> in, carry |-> enc.remainData, szOut |-> szOut,
                 n |-> 0, err |-> "nil", engineCalled |-> FALSE, fedLen |-> 0,
                 inBytes |-> Len(in), afterFlush |-> encLast.flushedOk,
                 flushedOk |-> FALSE, status |-> 0]
    IN
    IF EmptyInput(in) THEN
        /\ encLast' = [call EXCEPT !.err = "EmptyInput"]
        /\ UNCHANGED <<enc, fedBytes, accepted, lame>>
    ELSE IF OutputTooSmall(szOut, EstimateOutBufBytes(enc.NumChannels, Len(in))) THEN
        /\ encLast' = [call EXCEPT !.err = "OutputTooSmall"]
        /\ UNCHANGED <<enc, fedBytes, accepted, lame>>
    ELSE
        LET joined == IF Len(enc.remainData) > 0 THEN JoinCarry(enc.remainData, in) ELSE in
            bytesPerSample == BytesPerSample(enc.NumChannels)
            szIn == AlignedLen(Len(joined), bytesPerSample)
            remain == Len(joined) - szIn
            newRemain == IF remain > 0 THEN NewRemain(enc.remainData, joined, szIn)
                         ELSE IF Len(enc.remainData) > 0 THEN <<>> ELSE enc.remainData
            block == SubSeq(joined, 1, szIn)
        IN
        /\ accepted' = accepted \o in
        /\ enc' = [enc EXCEPT !.remainData = newRemain]
        /\ IF NothingToEncode(szIn) THEN
               /\ encLast' = call
               /\ UNCHANGED <<fedBytes, lame>>
           ELSE
               /\ fedBytes' = fedBytes \o block
               /\ lame' = IF enc.handle = "nil" THEN lame ELSE LameAfterEncode(lame)
               /\ encLast' = [call EXCEPT !.engineCalled = TRUE, !.fedLen = szIn,
                                          !.status = nWr,
                                          !.n = IF nWr < 0 THEN 0 ELSE nWr,
                                          !.err = IF nWr < 0 THEN toError(nWr) ELSE "nil"]

\* func (enc *Encoder) Flush(out []byte) (n int, err error)
EncoderFlush(szOut, bytesOut) ==
    LET call == [op |-> "Flush", in |-> <<>>, carry |-> enc.remainData, szOut |-> szOut,
                 n |-> 0, err |-> "nil", engineCalled |-> FALSE, fedLen |-> 0,
                 inBytes |-> 0, afterFlush |-> encLast.flushedOk,
                 flushedOk |-> encLast.flushedOk, status |-> 0]
    IN
    /\ UNCHANGED <<enc, fedBytes, accepted>>
    /\ IF OutputTooSmall(szOut, EstimateOutBufBytes(enc.NumChannels, 0)) THEN
           /\ encLast' = [call EXCEPT !.err = "OutputTooSmall"]
           /\ UNCHANGED lame
       ELSE
           /\ lame' = IF enc.handle = "nil" THEN lame ELSE LameAfterFlush(lame, bytesOut)
           /\ encLast' = [call EXCEPT !.engineCalled = TRUE, !.status = bytesOut,
                                      !.n = IF bytesOut < 0 THEN 0 ELSE bytesOut,
                                      !.err = IF bytesOut < 0 THEN toError(bytesOut) ELSE "nil",
                                      !.flushedOk = (bytesOut >= 0) \/ encLast.flushedOk]

HandleOpenAlways(handle) == TRUE

\* if enc.handle != nil, if d.handle != nil
HandleOpen(handle) == handle # "nil"

\* func (enc *Encoder) Close()
EncoderClose ==
    /\ enc' = [enc EXCEPT !.handle = "nil"]
    /\ encLast' = [NoCall EXCEPT !.op = "Close", !.carry = enc.remainData,
                                 !.engineCalled = HandleOpen(enc.handle),
                                 !.afterFlush = encLast.flushedOk,
                                 !.flushedOk = encLast.flushedOk]
    /\ lame' = [lame EXCEPT !.closed = lame.closed + (IF HandleOpen(enc.handle) THEN 1 ELSE 0)]
    /\ UNCHANGED <<fedBytes, accepted>>

\* func (enc *Encoder) GetFrameNum() (int, error)
EncoderGetFrameNum(frameNum) ==
    /\ encLast' = [NoCall EXCEPT !.op = "GetFrameNum", !.carry = enc.remainData,
                                 !.engineCalled = TRUE, !.status = frameNum,
                                 !.n = IF frameNum < 0 THEN 0 ELSE frameNum,
                                 !.err = IF frameNum < 0 THEN toError(frameNum) ELSE "nil",
                                 !.afterFlush = encLast.flushedOk,
                                 !.flushedOk = encLast.flushedOk]
    /\ UNCHANGED <<enc, fedBytes, accepted, lame>>

\* n := enc.EstimateOutBufBytes(inBytes), as a caller sizing its output buffer
EncoderEstimate(inBytes) ==
    /\ encLast' = [NoCall EXCEPT !.op = "Estimate", !.carry = enc.remainData,
                                 !.inBytes = inBytes,
                                 !.n = EstimateOutBufBytes(enc.NumChannels, inBytes),
                                 !.afterFlush = encLast.flushedOk,
                                 !.flushedOk = encLast.flushedOk]
    /\ UNCHANGED <<enc, fedBytes, accepted, lame>>

EncodeStep ==
    \E len \in 0..MaxChunk :
        /\ Len(accepted) + len <= MaxTotal
        /\ \E szOut \in CapChoices(enc.NumChannels, len) :
           \E nWr \in EncodeEngineResults(enc.handle) :
               EncoderEncode(Fresh(Len(accepted), len), szOut, nWr)

FlushStep ==
    \E szOut \in CapChoices(enc.NumChannels, 0) :
    \E bytesOut \in (IF lame.drained /\ enc.handle # "nil" THEN DrainedFlushResults
                     ELSE FlushEngineResults(enc.handle)) :
        EncoderFlush(szOut, bytesOut)

CloseStep == EncoderClose

FrameNumStep == \E frameNum \in FrameNumEngineResults(enc.handle) : EncoderGetFrameNum(frameNum)

EstimateStep == \E inBytes \in (0..MaxEstimateIn) \cup LargeInputs : EncoderEstimate(inBytes)

-----------------------------------------------------------------------------
(* Byte-level arithmetic.  A Go int is kept as a little-endian string of   *)
(* IntWidth base-256 digits where a product or a sum may pass 2^31.        *)

IntWidth == 8

\* the low n bytes of v in two's complement, little-endian
Digits(v, n) ==
    [i \in 1..n |-> IF i <= 4 THEN (v \div (256 ^ (i - 1))) % 256
                    ELSE IF v < 0 THEN 255 ELSE 0]

RECURSIVE MulFrom(_, _, _, _)
\* digits d times m (0 <= m < 2^16) from digit i on with carry c, modulo 256^Len(d)
MulFrom(d, m, i, c) ==
    IF i > Len(d) THEN <<>>
    ELSE LET t == d[i] * m + c
         IN  <<t % 256>> \o MulFrom(d, m, i + 1, t \div 256)

MulSmall(d, m) == MulFrom(d, m, 1, 0)

RECURSIVE AddFrom(_, _, _)
AddFrom(d, i, c) ==
    IF i > Len(d) THEN <<>>
    ELSE LET t == d[i] + c
         IN  <<t % 256>> \o AddFrom(d, i + 1, t \div 256)

\* digits d plus a (0 <= a < 2^16), modulo 256^Len(d)
AddSmall(d, a) == AddFrom(d, 1, a)

\* digits d (not negative) divided by 8
Div8(d) ==
    [i \in 1..Len(d) |->
        (d[i] \div 8) + (IF i < Len(d) THEN (d[i + 1] % 8) * 32 ELSE 0)]

\* binary.LittleEndian.PutUint32(b, uint32(v)) for an int held as digits
PutUint32(d) == SubSeq(d, 1, 4)

\* binary.LittleEndian.PutUint16(b, uint16(v)) for an int held as digits
PutUint16(d) == SubSeq(d, 1, 2)

\* int(binary.LittleEndian.Uint32(b))
Uint32(b) == b[1] + 256 * b[2] + 65536 * b[3] + 16777216 * b[4]

\* int(binary.LittleEndian.Uint16(b))
Uint16(b) == b[1] + 256 * b[2]

-----------------------------------------------------------------------------
(* WAV header writer and parser (example/dec-exam.go) *)

TagRIFF == <<82, 73, 70, 70>>
TagWAVE == <<87, 65, 86, 69>>
TagFmt  == <<102, 109, 116, 32>>
TagData == <<100, 97, 116, 97>>

GenerateWavHeaderFieldsSwapped(pcmSize, sampleRate, numChannels, bitsPerSample) ==
    LET byteRate == Div8(MulSmall(MulSmall(Digits(sampleRate, IntWidth), numChannels),
                                  bitsPerSample))
        blockAlign == Div8(MulSmall(Digits(numChannels, IntWidth), bitsPerSample))
    IN  TagRIFF
        \o PutUint32(AddSmall(Digits(pcmSize, IntWidth), 36))
        \o TagWAVE
        \o TagFmt
        \o PutUint32(Digits(16, IntWidth))
        \o PutUint16(Digits(1, IntWidth))
        \o PutUint16(Digits(numChannels, IntWidth))
        \o PutUint32(Digits(sampleRate, IntWidth))
        \o PutUint32(byteRate)
        \o PutUint16(Digits(bitsPerSample, IntWidth))
        \o PutUint16(blockAlign)
        \o TagData
        \o PutUint32(Digits(pcmSize, IntWidth))

\* func GenerateWavHeader(pcmSize, sampleRate, numChannels, bitsPerSample int) []byte
GenerateWavHeader(pcmSize, sampleRate, numChannels, bitsPerSample) ==
    LET byteRate == Div8(MulSmall(MulSmall(Digits(sampleRate, IntWidth), numChannels),
                                  bitsPerSample))
        blockAlign == Div8(MulSmall(Digits(numChannels, IntWidth), bitsPerSample))
    IN  TagRIFF
        \o PutUint32(AddSmall(Digits(pcmSize, IntWidth), 36))
        \o TagWAVE
        \o TagFmt
        \o PutUint32(Digits(16, IntWidth))
        \o PutUint16(Digits(1, IntWidth))
        \o PutUint16(Digits(numChannels, IntWidth))
        \o PutUint32(Digits(sampleRate, IntWidth))
        \o PutUint32(byteRate)
        \o PutUint16(blockAlign)
        \o PutUint16(Digits(bitsPerSample, IntWidth))
        \o TagData
        \o PutUint32(Digits(pcmSize, IntWidth))

\* io.ReadFull(r, buf) with len(buf) = n on the stream s read up to pos
ReadFull(s, pos, n) ==
    IF pos + n <= Len(s)
    THEN [ok |-> TRUE, data |-> SubSeq(s, pos + 1, pos + n), pos |-> pos + n, err |-> "nil"]
    ELSE [ok |-> FALSE, data |-> <<>>, pos |-> Len(s),
          err |-> IF pos = Len(s) THEN "EOF" ELSE "ErrUnexpectedEOF"]

CopyNDiscardPadded(s, pos, n) ==
    LET m == n + (n % 2)
    IN  IF pos + m <= Len(s)
        THEN [ok |-> TRUE, pos |-> pos + m, err |-> "nil"]
        ELSE [ok |-> FALSE, pos |-> Len(s), err |-> "EOF"]

CopyNDiscardRewinds(s, pos, n) == [ok |-> TRUE, pos |-> pos - 8, err |-> "nil"]

\* io.CopyN(io.Discard, r, n)
CopyNDiscard(s, pos, n) ==
    IF pos + n <= Len(s)
    THEN [ok |-> TRUE, pos |-> pos + n, err |-> "nil"]
    ELSE [ok |-> FALSE, pos |-> Len(s), err |-> "EOF"]

\* return 0, 0, 0, 0, err
ParseFail(err, cause, pos) ==
    [pcmSize |-> 0, sampleRate |-> 0, numChannels |-> 0, bitsPerSample |-> 0,
     err |-> err, cause |-> cause, pos |-> pos]

FmtBitsPerSampleFromBlockAlign(fmtData) == Uint16(SubSeq(fmtData, 13, 14))

\* bitsPerSample = int(binary.LittleEndian.Uint16(fmtData[14:16]))
FmtBitsPerSample(fmtData) == Uint16(SubSeq(fmtData, 15, 16))

RECURSIVE ParseChunks(_, _, _)
\* the chunk loop of ParseWavHeader; f holds fmtChunkFound and the named results
ParseChunks(s, pos, f) ==
    LET h == ReadFull(s, pos, 8)
        chunkID == SubSeq(h.data, 1, 4)
        chunkSize == Uint32(SubSeq(h.data, 5, 8))
    IN
    IF ~h.ok THEN ParseFail("read chunk header failed", h.err, h.pos)
    ELSE IF chunkID = TagFmt THEN
        IF chunkSize < 16 THEN ParseFail("invalid fmt chunk size", "nil", h.pos)
        ELSE LET d == ReadFull(s, h.pos, chunkSize)
                 audioFormat == Uint16(SubSeq(d.data, 1, 2))
             IN  IF ~d.ok THEN ParseFail("read fmt chunk failed", d.err, d.pos)
                 ELSE IF audioFormat # 1
                 THEN ParseFail("unsupported audio format", "nil", d.pos)
                 ELSE ParseChunks(s, d.pos,
                        [fmtChunkFound |-> TRUE,
                         numChannels |-> Uint16(SubSeq(d.data, 3, 4)),
                         sampleRate |-> Uint32(SubSeq(d.data, 5, 8)),
                         bitsPerSample |-> FmtBitsPerSample(d.data)])
    ELSE IF chunkID = TagData THEN
        IF ~f.fmtChunkFound THEN ParseFail("data chunk found before fmt chunk", "nil", h.pos)
        ELSE [pcmSize |-> chunkSize, sampleRate |-> f.sampleRate,
              numChannels |-> f.numChannels, bitsPerSample |-> f.bitsPerSample,
              err |-> "nil", cause |-> "nil", pos |-> h.pos]
    ELSE LET k == CopyNDiscard(s, h.pos, chunkSize)
         IN  IF ~k.ok THEN ParseFail("skip chunk failed", k.err, k.pos)
             ELSE ParseChunks(s, k.pos, f)

ParseWavHeaderRiffOnly(s) ==
    LET r == ReadFull(s, 0, 12)
    IN  IF ~r.ok THEN ParseFail("read RIFF header failed", r.err, r.pos)
        ELSE IF SubSeq(r.data, 1, 4) # TagRIFF
        THEN ParseFail("invalid WAV header: missing RIFF/WAVE", "nil", r.pos)
        ELSE ParseChunks(s, r.pos,
               [fmtChunkFound |-> FALSE, numChannels |-> 0, sampleRate |-> 0,
                bitsPerSample |-> 0])

\* func ParseWavHeader(wavStream io.Reader) (pcmSize, sampleRate, numChannels, bitsPerSample int, err error)
ParseWavHeader(s) ==
    LET r == ReadFull(s, 0, 12)
    IN  IF ~r.ok THEN ParseFail("read RIFF header failed", r.err, r.pos)
        ELSE IF SubSeq(r.data, 1, 4) # TagRIFF \/ SubSeq(r.data, 9, 12) # TagWAVE
        THEN ParseFail("invalid WAV header: missing RIFF/WAVE", "nil", r.pos)
        ELSE ParseChunks(s, r.pos,
               [fmtChunkFound |-> FALSE, numChannels |-> 0, sampleRate |-> 0,
                bitsPerSample |-> 0])

\* arguments of the round trip: the ends and the byte boundaries of each field
PayloadSizes  == {0, 1, 255, 256, 88200, 16777216, 2147483647}
SampleRates   == {0, 1, 8000, 44100, 65536, 2147483647}
ChannelCounts == {0, 1, 2, 256, 65535}
BitDepths     == {0, 8, 16, 24, 32, 257, 65535}

NoParse == [pcmSize |-> 0, sampleRate |-> 0, numChannels |-> 0, bitsPerSample |-> 0,
            err |-> "none", cause |-> "nil", pos |-> 0]

HdInit ==
    hd \in { [pc |-> "args", pcmSize |-> p, sampleRate |-> r, numChannels |-> c,
              bitsPerSample |-> b, stream |-> <<>>, parsed |-> NoParse] :
             p \in PayloadSizes, r \in SampleRates, c \in ChannelCounts, b \in BitDepths }

\* header := GenerateWavHeader(len(pcmData), sampleRate, channels, bits)
HdGenerate ==
    /\ hd.pc = "args"
    /\ hd' = [hd EXCEPT !.pc = "generated",
                        !.stream = GenerateWavHeader(hd.pcmSize, hd.sampleRate,
                                                     hd.numChannels, hd.bitsPerSample)]

\* ParseWavHeader(bytes.NewReader(header))
HdParse ==
    /\ hd.pc = "generated"
    /\ hd' = [hd EXCEPT !.pc = "parsed", !.parsed = ParseWavHeader(hd.stream)]

-----------------------------------------------------------------------------
(* ParseWavHeader on chunked streams.  A stream is a 12-byte prologue and a  *)
(* list of chunks, each an 8-byte tag and length followed by its body; the   *)
(* body of the data chunk is the payload.                                    *)

\* most chunks inserted into a stream
MaxExtra == 2

TagJUNK == <<74, 85, 78, 75>>
TagFMTUpper == <<70, 77, 84, 32>>

Chunk(tag, size, body) == [tag |-> tag, size |-> size, body |-> body]

\* the body of a fmt chunk: the 16 bytes GenerateWavHeader writes for the
\* format, the format code set to code, then extra bytes
FmtBody(code, sampleRate, numChannels, bitsPerSample, extra) ==
    PutUint16(Digits(code, IntWidth))
    \o SubSeq(GenerateWavHeader(0, sampleRate, numChannels, bitsPerSample), 23, 36)
    \o extra

\* every byte of the streams is below 128, so that four bytes read as a length
\* at any offset stay below 2^31
FmtPCM == Chunk(TagFmt, 16, FmtBody(1, 11025, 1, 16, <<>>))
FmtPCMLong == Chunk(TagFmt, 18, FmtBody(1, 8000, 1, 8, <<0, 0>>))
FmtFloat == Chunk(TagFmt, 16, FmtBody(3, 8000, 2, 16, <<>>))
FmtShort == Chunk(TagFmt, 14, SubSeq(FmtBody(1, 11025, 1, 16, <<>>), 1, 14))
DataChunk == Chunk(TagData, 3, <<101, 102, 103>>)

\* the chunk lists parsed: well formed, data before fmt, no fmt, no data, a
\* format that is not PCM, a short fmt chunk, and two fmt chunks
Layouts ==
    { <<FmtPCM, DataChunk>>, <<FmtPCMLong, DataChunk>>, <<FmtFloat, DataChunk>>,
      <<FmtShort, DataChunk>>, <<DataChunk>>, <<DataChunk, FmtPCM>>, <<FmtPCM>>,
      <<FmtPCM, FmtFloat, DataChunk>>, <<FmtPCM, FmtPCMLong, DataChunk>> }

Prologues ==
    { TagRIFF \o <<0, 0, 0, 0>> \o TagWAVE,
      <<82, 73, 70, 88>> \o <<0, 0, 0, 0>> \o TagWAVE,
      TagRIFF \o <<0, 0, 0, 0>> \o <<87, 65, 86, 88>> }

\* chunks that are neither "fmt " nor "data", of even, odd and zero length;
\* the longest carries the bytes of a data chunk header in its body
UnknownChunks ==
    { Chunk(t, Len(b), b) :
        t \in {TagJUNK, TagFMTUpper},
        b \in { <<>>, <<9>>, TagData \o <<2, 0, 0, 0>> \o <<7, 8>> } }

RECURSIVE ChunkBytes(_, _)
\* the bytes of the chunks from number i on
ChunkBytes(cs, i) ==
    IF i > Len(cs) THEN <<>>
    ELSE cs[i].tag \o PutUint32(Digits(cs[i].size, IntWidth)) \o cs[i].body
         \o ChunkBytes(cs, i + 1)

WavStream(prologue, cs) == prologue \o ChunkBytes(cs, 1)

\* the number of the first data chunk, 0 when there is none
DataIndex(cs) ==
    IF \E i \in 1..Len(cs) : cs[i].tag = TagData
    THEN CHOOSE i \in 1..Len(cs) :
            cs[i].tag = TagData /\ \A j \in 1..(i - 1) : cs[j].tag # TagData
    ELSE 0

InsertAt(cs, i, c) == SubSeq(cs, 1, i) \o <<c>> \o SubSeq(cs, i + 1, Len(cs))

WavInit ==
    wav \in { [pc |-> "layout", prologue |-> p, base |-> l, chunks |-> l,
               inserted |-> 0, skipped |-> 0, parsed |-> NoParse, parsedBase |-> NoParse] :
              p \in Prologues, l \in Layouts }

\* one more chunk of another kind is put in front of the data chunk
WavInsertChunk ==
    /\ wav.pc = "layout"
    /\ wav.inserted < MaxExtra
    /\ LET di == DataIndex(wav.chunks)
           last == IF di > 0 THEN di - 1 ELSE Len(wav.chunks)
       IN  \E i \in 0..last :
           \E c \in UnknownChunks :
               wav' = [wav EXCEPT !.chunks = InsertAt(wav.chunks, i, c),
                                  !.inserted = wav.inserted + 1,
                                  !.skipped = wav.skipped + 8 + c.size]

\* ParseWavHeader(wavStream), on the stream and on the stream it was made from
WavParse ==
    /\ wav.pc = "layout"
    /\ wav' = [wav EXCEPT !.pc = "parsed",
                          !.parsed = ParseWavHeader(WavStream(wav.prologue, wav.chunks)),
                          !.parsedBase = ParseWavHeader(WavStream(wav.prologue, wav.base))]

-----------------------------------------------------------------------------
(* ParseWavHeader pass by pass of its chunk loop, on streams that end early *)

\* one pass of the for loop of ParseWavHeader on the stream s read up to pos:
\* the loop goes on, breaks (the results are returned) or returns an error
ParseStep(s, pos, f) ==
    LET h == ReadFull(s, pos, 8)
        chunkID == SubSeq(h.data, 1, 4)
        chunkSize == Uint32(SubSeq(h.data, 5, 8))
    IN
    IF ~h.ok
    THEN [go |-> "return", f |-> f, r |-> ParseFail("read chunk header failed", h.err, h.pos)]
    ELSE IF chunkID = TagFmt THEN
        IF chunkSize < 16
        THEN [go |-> "return", f |-> f, r |-> ParseFail("invalid fmt chunk size", "nil", h.pos)]
        ELSE LET d == ReadFull(s, h.pos, chunkSize)
                 audioFormat == Uint16(SubSeq(d.data, 1, 2))
             IN  IF ~d.ok
                 THEN [go |-> "return", f |-> f,
                       r |-> ParseFail("read fmt chunk failed", d.err, d.pos)]
                 ELSE IF audioFormat # 1
                 THEN [go |-> "return", f |-> f,
                       r |-> ParseFail("unsupported audio format", "nil", d.pos)]
                 ELSE [go |-> "continue",
                       f |-> [fmtChunkFound |-> TRUE,
                              numChannels |-> Uint16(SubSeq(d.data, 3, 4)),
                              sampleRate |-> Uint32(SubSeq(d.data, 5, 8)),
                              bitsPerSample |-> FmtBitsPerSample(d.data)],
                       r |-> [NoParse EXCEPT !.pos = d.pos]]
    ELSE IF chunkID = TagData THEN
        IF ~f.fmtChunkFound
        THEN [go |-> "return", f |-> f,
              r |-> ParseFail("data chunk found before fmt chunk", "nil", h.pos)]
        ELSE [go |-> "break", f |-> f,
              r |-> [pcmSize |-> chunkSize, sampleRate |-> f.sampleRate,
                     numChannels |-> f.numChannels, bitsPerSample |-> f.bitsPerSample,
                     err |-> "nil", cause |-> "nil", pos |-> h.pos]]
    ELSE LET k == CopyNDiscard(s, h.pos, chunkSize)
         IN  IF ~k.ok
             THEN [go |-> "return", f |-> f, r |-> ParseFail("skip chunk failed", k.err, k.pos)]
             ELSE [go |-> "continue", f |-> f, r |-> [NoParse EXCEPT !.pos = k.pos]]

\* the chunk lists of the streams cut short: those of Layouts, and lists with
\* chunks to skip, one of them empty, one holding the bytes of a data chunk
\* header in its body
PwLayouts ==
    Layouts \cup
    { <<FmtPCM, Chunk(TagJUNK, 1, <<9>>), DataChunk>>,
      <<Chunk(TagJUNK, 0, <<>>), FmtPCMLong,
        Chunk(TagFMTUpper, 10, TagData \o <<2, 0, 0, 0>> \o <<7, 8>>), DataChunk>> }

\* a stream of k bytes: the first k bytes of the prologue and the chunks
PwStart(p, cs, k) ==
    [pc |-> "riff", prologue |-> p, chunks |-> cs,
     stream |-> SubSeq(WavStream(p, cs), 1, k), pos |-> 0,
     f |-> [fmtChunkFound |-> FALSE, numChannels |-> 0, sampleRate |-> 0, bitsPerSample |-> 0],
     read |-> <<>>, result |-> NoParse]

PwInit ==
    \E p \in Prologues : \E cs \in PwLayouts : \E k \in 0..Len(WavStream(p, cs)) :
        wav = PwStart(p, cs, k)

\* io.ReadFull(wavStream, riffHeader[:]) and the test of the RIFF and WAVE tags
PwReadRiff ==
    /\ wav.pc = "riff"
    /\ LET r == ReadFull(wav.stream, 0, 12)
       IN  wav' = IF ~r.ok
                  THEN [wav EXCEPT !.pc = "returned", !.pos = r.pos,
                                   !.result = ParseFail("read RIFF header failed", r.err, r.pos)]
                  ELSE IF SubSeq(r.data, 1, 4) # TagRIFF \/ SubSeq(r.data, 9, 12) # TagWAVE
                  THEN [wav EXCEPT !.pc = "returned", !.pos = r.pos,
                                   !.result = ParseFail("invalid WAV header: missing RIFF/WAVE",
                                                        "nil", r.pos)]
                  ELSE [wav EXCEPT !.pc = "chunk", !.pos = r.pos]

\* one pass of the chunk loop; read is the chunk header the pass has read,
\* empty when the stream ended in it
PwReadChunk ==
    /\ wav.pc = "chunk"
    /\ LET st == ParseStep(wav.stream, wav.pos, wav.f)
       IN  wav' = [wav EXCEPT !.pc = IF st.go = "continue" THEN "chunk" ELSE "returned",
                              !.pos = st.r.pos, !.f = st.f,
                              !.read = ReadFull(wav.stream, wav.pos, 8).data,
                              !.result = IF st.go = "continue" THEN wav.result ELSE st.r]

-----------------------------------------------------------------------------
(* NewEncoder (enc.go).  The fields of an EncoderConfig are Go ints, kept as *)
(* IntWidth digits; the engine's setters take C ints, 4 bytes wide.          *)

GoInt(v) == Digits(v, IntWidth)

\* 2^32 + v, a Go int that does not fit a C int
Wide(v) == SubSeq(Digits(v, IntWidth), 1, 4) \o <<1, 0, 0, 0>>

IsZero(d) == \A i \in 1..Len(d) : d[i] = 0

IsNegative(d) == d[Len(d)] >= 128

IsPositive(d) == ~IsNegative(d) /\ ~IsZero(d)

\* C.int(v), C.vbr_mode(v), C.MPEG_mode(v): the low 4 bytes, read back as a Go int
CInt(d) == SubSeq(d, 1, 4) \o [i \in 1..(IntWidth - 4) |-> IF d[4] >= 128 THEN 255 ELSE 0]

\* C.float(v): every int of less than 24 bits has a float of its own value
CFloat(d) == CInt(d)

RECURSIVE SubFrom(_, _, _)
SubFrom(d, i, b) ==
    IF i > Len(d) THEN <<>>
    ELSE LET t == d[i] - b
         IN  <<(t + 256) % 256>> \o SubFrom(d, i + 1, IF t < 0 THEN 1 ELSE 0)

\* v - 1
SubOne(d) == SubFrom(d, 1, 1)

QualityAbove9(q) == ~IsNegative(q) /\ (q[1] > 9 \/ \E i \in 2..Len(q) : q[i] # 0)

\* c.Quality < 0 || c.Quality > 9
QualityOutOfRange(q) ==
    IsNegative(q) \/ (q[1] > 9 \/ \E i \in 2..Len(q) : q[i] # 0)

\* &EncoderConfig{}
ZeroConfig ==
    [isNil |-> FALSE, SampleRate |-> GoInt(0), NumChannels |-> GoInt(0),
     Bitrate |-> GoInt(0), Quality |-> GoInt(0), VbrMode |-> GoInt(0),
     MpegMode |-> GoInt(0)]

\* a *EncoderConfig that is nil: no struct behind it
NilConfig == [ZeroConfig EXCEPT !.isNil = TRUE]

\* func populateEncConfig(c *EncoderConfig) *EncoderConfig; a config that is
\* not nil is changed in place
populateEncConfig(c) ==
    LET c0 == IF c.isNil THEN ZeroConfig ELSE c
        c1 == IF IsZero(c0.NumChannels) THEN [c0 EXCEPT !.NumChannels = GoInt(2)] ELSE c0
        c2 == IF IsZero(c1.SampleRate) THEN [c1 EXCEPT !.SampleRate = GoInt(44100)] ELSE c1
        c3 == IF IsZero(c2.Bitrate) THEN [c2 EXCEPT !.Bitrate = GoInt(128)] ELSE c2
    IN  IF QualityOutOfRange(c3.Quality) THEN [c3 EXCEPT !.Quality = GoInt(2)] ELSE c3

EngineCall(fn, arg) == [fn |-> fn, arg |-> arg]

\* the engine calls of initParams in order, were none of them to fail
initParamsCalls(c, secondBrate) ==
    <<EngineCall("lame_set_in_samplerate", CInt(c.SampleRate)),
      EngineCall("lame_set_num_channels", CInt(c.NumChannels)),
      EngineCall("lame_set_brate", CInt(c.Bitrate))>>
    \o (IF secondBrate THEN <<EngineCall("lame_set_brate", CInt(c.Bitrate))>> ELSE <<>>)
    \o (IF ~IsZero(c.VbrMode)
        THEN <<EngineCall("lame_set_VBR", CInt(c.VbrMode)),
               EngineCall("lame_set_VBR_quality", CFloat(c.Quality))>>
        ELSE <<EngineCall("lame_set_VBR", GoInt(0)),
               EngineCall("lame_set_quality", CInt(c.Quality))>>)
    \o (IF IsPositive(c.MpegMode)
        THEN <<EngineCall("lame_set_mode", CInt(SubOne(c.MpegMode)))>> ELSE <<>>)
    \o <<EngineCall("lame_init_params", GoInt(0)), EngineCall("lame_get_framesize", GoInt(0))>>

\* func (enc *Encoder) initParams(c *EncoderConfig) error: the engine call
\* number failAt answers errNo below 0, the calls before it succeed; failAt 0
\* or past the last call: none fails
initParams(c, secondBrate, failAt, errNo) ==
    LET calls == initParamsCalls(c, secondBrate)
    IN  IF failAt \in 1..Len(calls)
        THEN [err |-> toError(errNo), log |-> SubSeq(calls, 1, failAt), done |-> FALSE]
        ELSE [err |-> "nil", log |-> calls, done |-> TRUE]

NoEncoder == [handle |-> "nil", NumChannels |-> GoInt(0)]

\* func NewEncoder(c *EncoderConfig) (*Encoder, error), enc.go:363: h is what
\* lame_init returns; config is the caller's struct after the call
NewEncoder(c, h, failAt, errNo) ==
    IF h = "nil"
    THEN [err |-> "failed to initialize lame", enc |-> NoEncoder, log |-> <<>>,
          closed |-> 0, inits |-> 0, config |-> c, panic |-> FALSE]
    ELSE LET pc == populateEncConfig(c)
             r == initParams(pc, FALSE, failAt, errNo)
             config == IF c.isNil THEN c ELSE pc
         IN  IF r.err # "nil"
             THEN [err |-> r.err, enc |-> NoEncoder, log |-> r.log, closed |-> 1, inits |-> 1,
                   config |-> config, panic |-> FALSE]
             ELSE [err |-> "nil", enc |-> [handle |-> "open", NumChannels |-> pc.NumChannels],
                   log |-> r.log, closed |-> 0, inits |-> 1, config |-> config, panic |-> FALSE]

\* func NewEncoder(c *EncoderConfig) (*Encoder, error), enc.go:73: NumChannels
\* is read from the caller's c after initParams, a nil pointer when c is nil
NewEncoderFirst(c, h, failAt, errNo) ==
    IF h = "nil"
    THEN [err |-> "failed to initialize lame", enc |-> NoEncoder, log |-> <<>>,
          closed |-> 0, inits |-> 0, config |-> c, panic |-> FALSE]
    ELSE LET pc == populateEncConfig(c)
             r == initParams(pc, TRUE, failAt, errNo)
             config == IF c.isNil THEN c ELSE pc
         IN  IF r.err # "nil"
             THEN [err |-> r.err, enc |-> NoEncoder, log |-> r.log, closed |-> 1, inits |-> 1,
                   config |-> config, panic |-> FALSE]
             ELSE IF c.isNil
             THEN [err |-> "none", enc |-> NoEncoder, log |-> r.log, closed |-> 0, inits |-> 1,
                   config |-> config, panic |-> TRUE]
             ELSE [err |-> "nil", enc |-> [handle |-> "open", NumChannels |-> pc.NumChannels],
                   log |-> r.log, closed |-> 0, inits |-> 1, config |-> config, panic |-> FALSE]

\* the configs a caller supplies: nil, or fields at zero, at usual values, out
\* of range and too wide for a C int
Configs ==
    {NilConfig} \cup
    { [isNil |-> FALSE, SampleRate |-> r, NumChannels |-> n, Bitrate |-> b,
       Quality |-> q, VbrMode |-> v, MpegMode |-> m] :
        r \in {GoInt(0), GoInt(8000), GoInt(-1), Wide(44100)},
        n \in {GoInt(0), GoInt(1), GoInt(2), Wide(1)},
        b \in {GoInt(0), GoInt(320), Wide(128)},
        q \in {GoInt(-1), GoInt(0), GoInt(9), GoInt(10)},
        v \in {GoInt(0), GoInt(3)},
        m \in {GoInt(-1), GoInt(0), GoInt(1), GoInt(4)} }

NoNewEncoder ==
    [err |-> "none", enc |-> NoEncoder, log |-> <<>>, closed |-> 0, inits |-> 0, config |-> NilConfig,
     panic |-> FALSE]

NeInit ==
    ne \in { [pc |-> "call", file |-> f, c |-> c, accepted |-> FALSE, ret |-> NoNewEncoder] :
             f \in {"enc.go:73", "enc.go:363"}, c \in Configs }

\* enc, err := NewEncoder(c); the engine refuses lame_init, or one of the
\* calls of initParams, or nothing
NeNewEncoder ==
    /\ ne.pc = "call"
    /\ \E h \in {"nil", "handle"} :
       \E failAt \in 0..Len(initParamsCalls(populateEncConfig(ne.c), ne.file = "enc.go:73")) :
           /\ (h = "nil" => failAt = 0)
           /\ ne' = [ne EXCEPT !.pc = "returned",
                               !.accepted = (h # "nil" /\ failAt = 0),
                               !.ret = IF ne.file = "enc.go:73"
                                       THEN NewEncoderFirst(ne.c, h, failAt, -1)
                                       ELSE NewEncoder(ne.c, h, failAt, -1)]

-----------------------------------------------------------------------------
(* Decoder session (mpg123 wrapper) *)

\* the formats a stream may carry: rate, channels, mpg123 encoding
Formats ==
    { <<44100, 2, "MPG123_ENC_SIGNED_16">>,
      <<8000, 1, "MPG123_ENC_UNSIGNED_8">>,
      <<48000, 1, "MPG123_ENC_SIGNED_24">>,
      <<24000, 2, "MPG123_ENC_SIGNED_32">>,
      <<32000, 2, "MPG123_ENC_FLOAT_32">> }

DecoderEstimateOneFrame == 1152 * 8 * 4

\* func (d *Decoder) EstimateOutBufBytes() int
DecoderEstimateOutBufBytes == (1152 * 8 * 4) * 5

TerminalReads ==
    { [st |-> "MPG123_NEED_MORE", done |-> 0], [st |-> "MPG123_NEED_MORE", done |-> 1],
      [st |-> "MPG123_DONE", done |-> 0],
      [st |-> "MPG123_OK", done |-> 0], [st |-> "MPG123_ERR", done |-> 0] }

OpenReads ==
    { [st |-> "MPG123_OK", done |-> 2], [st |-> "MPG123_NEW_FORMAT", done |-> 0] }

RECURSIVE OpenRuns(_)
\* the runs of at most k reads after which the drain loop goes on
OpenRuns(k) ==
    IF k = 0 THEN { <<>> }
    ELSE { <<>> } \cup { <<r>> \o t : r \in OpenReads, t \in OpenRuns(k - 1) }

\* what mpg123_read answers, call after call, within one Decode call: reads
\* that keep the loop going, then one that ends it
ReadScripts == { b \o <<t>> : b \in OpenRuns(MaxDrain - 1), t \in TerminalReads }

RECURSIVE Drain(_, _, _, _)
\* the for(;;) of mpg123_DecodeWrapped from read number i on
Drain(reads, i, bytesDecode, outSize) ==
    IF i > Len(reads) THEN [errNo |-> "MPG123_OK", bytesDecode |-> bytesDecode]
    ELSE LET errNo == reads[i].st
             done == reads[i].done
         IN  IF errNo # "MPG123_OK" THEN
                 IF errNo = "MPG123_NEED_MORE" \/ errNo = "MPG123_DONE"
                 THEN [errNo |-> "MPG123_OK", bytesDecode |-> bytesDecode + done]
                 ELSE IF errNo = "MPG123_NEW_FORMAT"
                 THEN Drain(reads, i + 1, bytesDecode, outSize)
                 ELSE [errNo |-> errNo, bytesDecode |-> bytesDecode]
             ELSE IF done = 0
             THEN [errNo |-> "MPG123_OK", bytesDecode |-> bytesDecode]
             ELSE Drain(reads, i + 1, bytesDecode + done, outSize - done)

\* int mpg123_DecodeWrapped(mh, pBuffer, bufferSize, pOut, outSize, &bytesDecode)
mpg123_DecodeWrapped(feed, reads, outSize) ==
    IF feed # "MPG123_OK" THEN [errNo |-> feed, bytesDecode |-> 0]
    ELSE Drain(reads, 1, 0, outSize)

RECURSIVE SumDone(_, _)
\* the bytes the engine handed out over the reads of one call
SumDone(reads, i) == IF i > Len(reads) THEN 0 ELSE reads[i].done + SumDone(reads, i + 1)

HasNewFormat(reads) == \E i \in 1..Len(reads) : reads[i].st = "MPG123_NEW_FORMAT"

\* the switch of getFormat: bit depth 0 stands for the default branch
EncodingBitDepth(cEnc) ==
    CASE cEnc = "MPG123_ENC_UNSIGNED_8" -> 8
      [] cEnc = "MPG123_ENC_SIGNED_16"  -> 16
      [] cEnc = "MPG123_ENC_SIGNED_24"  -> 24
      [] cEnc = "MPG123_ENC_SIGNED_32"  -> 32
      [] OTHER -> 0

\* func (d *Decoder) getFormat() error, with mpg123_getformat answering gfStatus and fmt
getFormat(d, gfStatus, fmt) ==
    IF gfStatus # "MPG123_OK" THEN [d |-> d, err |-> gfStatus]
    ELSE LET d1 == [d EXCEPT !.SampleRate = fmt[1], !.NumChannels = fmt[2]]
             bits == EncodingBitDepth(fmt[3])
         IN  IF bits = 0 THEN [d |-> d1, err |-> "unsupported encoding"]
             ELSE [d |-> [d1 EXCEPT !.SampleBitDepth = bits], err |-> "nil"]

NeedFormatAlways(d, bytesDecoded) == bytesDecoded > 0

NeedFormatNever(d, bytesDecoded) == FALSE

\* if d.SampleRate == 0 && bytesDecoded > 0
NeedFormat(d, bytesDecoded) == d.SampleRate = 0 /\ bytesDecoded > 0

\* func (d *Decoder) Decode(in, out []byte) (n int, err error); o is what the
\* engine answers: o.feed to mpg123_feed, o.reads to the mpg123_read calls,
\* o.gf to mpg123_getformat, and fmt the format it then reports
DecoderDecode(d, szIn, szOut, o, fmt) ==
    IF szIn = 0 THEN [n |-> 0, err |-> "input buffer is empty", d |-> d]
    ELSE IF szOut < DecoderEstimateOutBufBytes
    THEN [n |-> 0, err |-> "output buffer size is not enough", d |-> d]
    ELSE LET w == mpg123_DecodeWrapped(o.feed, o.reads, szOut)
         IN  IF w.errNo # "MPG123_OK" THEN [n |-> 0, err |-> w.errNo, d |-> d]
             ELSE IF NeedFormat(d, w.bytesDecode)
             THEN LET g == getFormat(d, o.gf, fmt)
                  IN  IF g.err # "nil" THEN [n |-> 0, err |-> g.err, d |-> g.d]
                      ELSE [n |-> w.bytesDecode, err |-> "nil", d |-> g.d]
             ELSE [n |-> w.bytesDecode, err |-> "nil", d |-> d]

\* what the engine may answer to one Decode call: a refused feed, or an
\* accepted feed with its reads and, where bytes came out, the answer
\* mpg123_getformat would give
EngineAnswers ==
    { [feed |-> "MPG123_ERR", reads |-> <<>>, gf |-> "MPG123_OK"] }
    \cup { [feed |-> "MPG123_OK", reads |-> r, gf |-> "MPG123_OK"] : r \in ReadScripts }
    \cup { [feed |-> "MPG123_OK", reads |-> r, gf |-> "MPG123_ERR"] :
             r \in { x \in ReadScripts : Drain(x, 1, 0, DecoderEstimateOutBufBytes).bytesDecode > 0 } }

\* what the engine answers on a handle that was released: mpg123_feed refuses
\* (also the answer never asked for, when a call does not reach the engine)
ClosedAnswers == { [feed |-> "MPG123_BAD_HANDLE", reads |-> <<>>, gf |-> "MPG123_OK"] }

\* most Decode calls made on one Decoder session
MaxDecodeCalls == 3

\* input lengths and output capacities a caller of Decode tries
DecInputLens == {0, 2048}

DecCapChoices == { 0, DecoderEstimateOutBufBytes - 1, DecoderEstimateOutBufBytes }

\* yieldedBefore and yielded keep one fact of the session's history, before
\* and after the call: some Decode call has returned bytes and no error
NoDecCall ==
    [op |-> "none", szIn |-> 0, szOut |-> 0, n |-> 0, err |-> "nil", fed |-> FALSE,
     before |-> [handle |-> "nil", SampleRate |-> 0, NumChannels |-> 0, SampleBitDepth |-> 0],
     reported |-> <<0, 0, "none">>, yieldedBefore |-> FALSE, yielded |-> FALSE,
     calls |-> 0]

\* the argument checks of Decode let the call through to mpg123_DecodeWrapped
ReachesEngine(szIn, szOut) == szIn # 0 /\ ~(szOut < DecoderEstimateOutBufBytes)

\* n, err := d.Decode(in, out) on the session
DecoderDecodeCall(szIn, szOut, o, fmt) ==
    LET r == DecoderDecode(dec, szIn, szOut, o, fmt)
        fed == ReachesEngine(szIn, szOut)
        yields == r.err = "nil" /\ r.n > 0
    IN  /\ dec' = r.d
        /\ decLast' = [op |-> "Decode", szIn |-> szIn, szOut |-> szOut, n |-> r.n,
                       err |-> r.err, fed |-> fed, before |-> dec,
                       reported |-> IF fed /\ o.feed = "MPG123_OK" THEN fmt ELSE eng.fmt,
                       yieldedBefore |-> decLast.yielded,
                       yielded |-> decLast.yielded \/ yields,
                       calls |-> decLast.calls + 1]
        /\ eng' = IF fed /\ o.feed = "MPG123_OK"
                  THEN [eng EXCEPT !.fmt = fmt, !.produced = eng.produced + SumDone(o.reads, 1)]
                  ELSE eng

\* func (d *Decoder) Close()
DecoderClose ==
    /\ dec' = [dec EXCEPT !.handle = "nil"]
    /\ eng' = [eng EXCEPT !.deleted = eng.deleted + (IF HandleOpen(dec.handle) THEN 1 ELSE 0)]
    /\ decLast' = [NoDecCall EXCEPT !.op = "Close", !.before = dec,
                                    !.reported = eng.fmt,
                                    !.yieldedBefore = decLast.yielded,
                                    !.yielded = decLast.yielded,
                                    !.calls = decLast.calls]

\* n := d.EstimateOutBufBytes(), as a caller sizing its output buffer
DecoderEstimate ==
    /\ decLast' = [NoDecCall EXCEPT !.op = "Estimate", !.before = dec,
                                    !.n = DecoderEstimateOutBufBytes,
                                    !.reported = eng.fmt,
                                    !.yieldedBefore = decLast.yielded,
                                    !.yielded = decLast.yielded,
                                    !.calls = decLast.calls]
    /\ UNCHANGED <<dec, eng>>

\* decoder, err := NewDecoder(), succeeded
DecInit ==
    /\ dec = [handle |-> "open", SampleRate |-> 0, NumChannels |-> 0, SampleBitDepth |-> 0]
    /\ decLast = NoDecCall
    /\ eng \in { [fmt |-> f, produced |-> 0, handles |-> 1, deleted |-> 0] : f \in Formats }

DecDecodeStep ==
    /\ decLast.calls < MaxDecodeCalls
    /\ \E szIn \in DecInputLens :
       \E szOut \in DecCapChoices :
       \E o \in (IF dec.handle = "nil" \/ ~ReachesEngine(szIn, szOut)
                 THEN ClosedAnswers ELSE EngineAnswers) :
       \E newFmt \in (IF HasNewFormat(o.reads) THEN Formats ELSE {eng.fmt}) :
           DecoderDecodeCall(szIn, szOut, o, newFmt)

DecCloseStep == DecoderClose

DecEstimateStep == DecoderEstimate

-----------------------------------------------------------------------------
(* One Decode call, read by read: mpg123_feed, then the for(;;) of          *)
(* mpg123_DecodeWrapped one mpg123_read at a time, then the rest of Decode.  *)

\* how many bytes one mpg123_read may report into the outSize bytes it was
\* given: none, all of them, half of them, or a single one when few are left
DoneChoices(outSize) ==
    { n \in {0, 1, (outSize + 1) \div 2, outSize} : n <= outSize /\ (n = 1 => outSize <= 3) }

ReadStatuses == {"MPG123_OK", "MPG123_NEED_MORE", "MPG123_DONE", "MPG123_NEW_FORMAT", "MPG123_ERR"}

DrainStepZeroReadGoesOn(errNo, done, bytesDecode, outSize) ==
    IF errNo # "MPG123_OK" THEN
        IF errNo = "MPG123_NEED_MORE" \/ errNo = "MPG123_DONE"
        THEN [go |-> "break", errNo |-> "MPG123_OK", bytesDecode |-> bytesDecode + done,
              outSize |-> outSize]
        ELSE IF errNo = "MPG123_NEW_FORMAT"
        THEN [go |-> "continue", errNo |-> "MPG123_OK", bytesDecode |-> bytesDecode,
              outSize |-> outSize]
        ELSE [go |-> "return", errNo |-> errNo, bytesDecode |-> bytesDecode,
              outSize |-> outSize]
    ELSE [go |-> "continue", errNo |-> "MPG123_OK", bytesDecode |-> bytesDecode + done,
          outSize |-> outSize - done]

\* one pass of the for(;;) of mpg123_DecodeWrapped, mpg123_read having
\* answered errNo and done: the loop goes on, breaks (return MPG123_OK) or
\* returns errNo
DrainStep(errNo, done, bytesDecode, outSize) ==
    IF errNo # "MPG123_OK" THEN
        IF errNo = "MPG123_NEED_MORE" \/ errNo = "MPG123_DONE"
        THEN [go |-> "break", errNo |-> "MPG123_OK", bytesDecode |-> bytesDecode + done,
              outSize |-> outSize]
        ELSE IF errNo = "MPG123_NEW_FORMAT"
        THEN [go |-> "continue", errNo |-> "MPG123_OK", bytesDecode |-> bytesDecode,
              outSize |-> outSize]
        ELSE [go |-> "return", errNo |-> errNo, bytesDecode |-> bytesDecode,
              outSize |-> outSize]
    ELSE IF done = 0
    THEN [go |-> "break", errNo |-> "MPG123_OK", bytesDecode |-> bytesDecode,
          outSize |-> outSize]
    ELSE [go |-> "continue", errNo |-> "MPG123_OK", bytesDecode |-> bytesDecode + done,
          outSize |-> outSize - done]

NoRead == [st |-> "none", done |-> 0]

\* len(out) is szOutHigh * 2^31 + szOut with szOut below 2^31: the capacities
\* a caller of Decode tries, and one of 2 GiB and more
DrCapChoices ==
    { <<0, o>> : o \in DecCapChoices } \cup { <<1, DecoderEstimateOutBufBytes>> }

\* szOut < d.EstimateOutBufBytes(), a comparison of Go ints
OutTooSmall(szOutHigh, szOut) == szOutHigh = 0 /\ szOut < DecoderEstimateOutBufBytes

\* outLen := C.int(szOut): the low 32 bits of len(out), read as a signed int
OutLen(szOutHigh, szOut) == IF szOutHigh % 2 = 0 THEN szOut ELSE szOut - 2147483647 - 1

\* what mpg123_read may report when given (size_t)outSize bytes of space: a
\* negative outSize is a size above 2^63, and the engine hands out what it
\* has, here a byte at a time
ReadDoneChoices(outSize, bytesDecode) ==
    IF outSize >= 0 THEN DoneChoices(outSize)
    ELSE IF bytesDecode < MaxDrain THEN {0, 1} ELSE {0}

\* a new session and the arguments of its first Decode call
DrInit ==
    dr \in { [pc |-> "Decode", szIn |-> i, szOutHigh |-> o[1], szOut |-> o[2], fmt |-> f,
              d |-> [handle |-> "open", SampleRate |-> 0, NumChannels |-> 0,
                     SampleBitDepth |-> 0],
              outSize |-> 0, bytesDecode |-> 0, counted |-> 0, last |-> NoRead,
              tick |-> 0, retried |-> FALSE, errNo |-> "none", n |-> 0, err |-> "none"] :
             i \in DecInputLens, o \in DrCapChoices, f \in Formats }

\* Decode up to mpg123_feed: the argument checks, then the feed
DrFeed ==
    /\ dr.pc = "Decode"
    /\ IF dr.szIn = 0
       THEN dr' = [dr EXCEPT !.pc = "returned", !.n = 0, !.err = "input buffer is empty"]
       ELSE IF OutTooSmall(dr.szOutHigh, dr.szOut)
       THEN dr' = [dr EXCEPT !.pc = "returned", !.n = 0,
                             !.err = "output buffer size is not enough"]
       ELSE \E feed \in {"MPG123_OK", "MPG123_ERR"} :
               dr' = IF feed # "MPG123_OK"
                     THEN [dr EXCEPT !.pc = "wrapped", !.errNo = feed]
                     ELSE [dr EXCEPT !.pc = "read", !.bytesDecode = 0,
                                     !.outSize = OutLen(dr.szOutHigh, dr.szOut)]

\* one mpg123_read answered st and done, and the pass of the loop on it; tick
\* tells one read from the next, counted is bytesDecode before the read
DrRead(st, done, fmt) ==
    LET r == DrainStep(st, done, dr.bytesDecode, dr.outSize)
    IN  dr' = [dr EXCEPT !.pc = IF r.go = "continue" THEN "read" ELSE "wrapped",
                         !.errNo = IF r.go = "continue" THEN dr.errNo ELSE r.errNo,
                         !.counted = dr.bytesDecode,
                         !.bytesDecode = r.bytesDecode,
                         !.outSize = r.outSize,
                         !.last = [st |-> st, done |-> done],
                         !.fmt = fmt,
                         !.retried = dr.retried \/ st = "MPG123_NEW_FORMAT",
                         !.tick = 1 - dr.tick]

\* mpg123_read reports a new format: the stream goes on in any format
DrReadNewFormat ==
    /\ dr.pc = "read"
    /\ \E f \in Formats : DrRead("MPG123_NEW_FORMAT", 0, f)

\* mpg123_read reports anything else
DrReadOther ==
    /\ dr.pc = "read"
    /\ \E st \in ReadStatuses \ {"MPG123_NEW_FORMAT"} :
       \E done \in (IF st = "MPG123_ERR" THEN {0}
                    ELSE ReadDoneChoices(dr.outSize, dr.bytesDecode)) :
           DrRead(st, done, dr.fmt)

\* Decode after mpg123_DecodeWrapped returned
DrReturn ==
    /\ dr.pc = "wrapped"
    /\ IF dr.errNo # "MPG123_OK"
       THEN dr' = [dr EXCEPT !.pc = "returned", !.n = 0, !.err = dr.errNo]
       ELSE IF NeedFormat(dr.d, dr.bytesDecode)
       THEN \E gf \in {"MPG123_OK", "MPG123_ERR"} :
               LET g == getFormat(dr.d, gf, dr.fmt)
               IN  dr' = [dr EXCEPT !.pc = "returned", !.d = g.d,
                                    !.n = IF g.err # "nil" THEN 0 ELSE dr.bytesDecode,
                                    !.err = g.err]
       ELSE dr' = [dr EXCEPT !.pc = "returned", !.n = dr.bytesDecode, !.err = "nil"]

-----------------------------------------------------------------------------
(* NewDecoder called from several goroutines: mpg123once, a sync.Once, lets  *)
(* one caller run mpg123_init while the others wait for it to finish.        *)

\* goroutines that call NewDecoder, and most calls they make between them
NumGoroutines == 2
MaxNewCalls == 3

Goroutines == 1..NumGoroutines

OnceRunsUntilInitialized(done, initialized) == ~initialized

\* sync.Once.Do: the function is run by the caller that finds the Once not done
OnceRuns(done, initialized) == ~done

OnceInit ==
    once = [pc |-> "run", done |-> FALSE, lock |-> 0, mpg123Initialized |-> FALSE,
            inits |-> 0, initResult |-> "none", handles |-> 0, deleted |-> 0,
            earlyHandle |-> FALSE, calls |-> 0, sessions |-> 0,
            g |-> [p \in Goroutines |-> [pc |-> "idle", last |-> "none"]]]

\* what NewDecoder returns to goroutine p
NdReturn(p, result) ==
    [once EXCEPT !.g[p].pc = "idle", !.g[p].last = result]

\* NewDecoder(): initializeMpg123() reaches mpg123once.Do
NdCall(p) ==
    /\ once.g[p].pc = "idle"
    /\ once.calls < MaxNewCalls
    /\ once' = [once EXCEPT !.g[p].pc = "Do", !.calls = once.calls + 1]

\* mpg123once.Do(f): return at once when done, else take the lock and, when
\* still not done, run f; a caller finding the lock taken waits
NdOnceDo(p) ==
    /\ once.g[p].pc = "Do"
    /\ IF ~OnceRuns(once.done, once.mpg123Initialized)
       THEN once' = [once EXCEPT !.g[p].pc = "check"]
       ELSE /\ once.lock = 0
            /\ once' = [once EXCEPT !.lock = p, !.g[p].pc = "init"]

\* err := C.mpg123_init(); if err != C.MPG123_OK { ...; return }
NdInit(p) ==
    /\ once.g[p].pc = "init"
    /\ \E err \in {"MPG123_OK", "MPG123_ERR"} :
        once' = [once EXCEPT !.inits = once.inits + 1, !.initResult = err,
                             !.g[p].pc = IF err # "MPG123_OK" THEN "unlock" ELSE "set"]

\* mpg123Initialized = true
NdSetInitialized(p) ==
    /\ once.g[p].pc = "set"
    /\ once' = [once EXCEPT !.mpg123Initialized = TRUE, !.g[p].pc = "unlock"]

\* f returned: the Once is done and the lock is given up
NdOnceDone(p) ==
    /\ once.g[p].pc = "unlock"
    /\ once' = [once EXCEPT !.done = TRUE, !.lock = 0, !.g[p].pc = "check"]

\* if !mpg123Initialized { return nil, errors.New("mpg123 not initialized") }
NdCheck(p) ==
    /\ once.g[p].pc = "check"
    /\ once' = IF ~once.mpg123Initialized THEN NdReturn(p, "mpg123 not initialized")
               ELSE [once EXCEPT !.g[p].pc = "new"]

\* mh = C.mpg123_new(nil, &errNo); earlyHandle records a handle made while
\* mpg123_init had not yet returned MPG123_OK
NdNew(p) ==
    /\ once.g[p].pc = "new"
    /\ \E mh \in {"nil", "handle"} :
        once' = IF mh = "nil" THEN NdReturn(p, "error initializing mpg123 decoder")
                ELSE [once EXCEPT !.handles = once.handles + 1, !.g[p].pc = "open_feed",
                                  !.earlyHandle = once.earlyHandle
                                                  \/ once.initResult # "MPG123_OK"]

\* errNo = C.mpg123_open_feed(mh)
NdOpenFeed(p) ==
    /\ once.g[p].pc = "open_feed"
    /\ \E errNo \in {"MPG123_OK", "MPG123_ERR"} :
        once' = IF errNo # "MPG123_OK"
                THEN [NdReturn(p, "error open feed") EXCEPT !.deleted = once.deleted + 1]
                ELSE [once EXCEPT !.g[p].pc = "param"]

\* errNo = C.mpg123_param(mh, C.MPG123_ADD_FLAGS, C.MPG123_QUIET, 0.0); return &Decoder{handle: mh}, nil
NdParam(p) ==
    /\ once.g[p].pc = "param"
    /\ \E errNo \in {"MPG123_OK", "MPG123_ERR"} :
        once' = IF errNo # "MPG123_OK"
                THEN [NdReturn(p, "error setting quiet flag") EXCEPT !.deleted = once.deleted + 1]
                ELSE [NdReturn(p, "nil") EXCEPT !.sessions = once.sessions + 1]

-----------------------------------------------------------------------------
(* DecodeToWav (example/dec-exam.go) *)

\* chunk := make([]byte, 2048)
DecodeChunkSize == 2048

Zeros(n) == [i \in 1..n |-> 0]

\* the bytes of a stream after data is written at offset pos
WriteAt(bytes, pos, data) ==
    LET end == IF pos + Len(data) > Len(bytes) THEN pos + Len(data) ELSE Len(bytes)
    IN  [i \in 1..end |-> IF i > pos /\ i <= pos + Len(data) THEN data[i - pos] ELSE bytes[i]]

\* writer.Write(data): all of data when ok, else an error after the first k
\* bytes; the destination counts the calls by what they carried
DstWrite(d, what, data, ok, k) ==
    LET put == IF ok THEN data ELSE SubSeq(data, 1, k)
    IN  [d EXCEPT !.bytes = WriteAt(d.bytes, d.pos, put),
                  !.pos = d.pos + Len(put),
                  !.writes[what] = d.writes[what] + 1]

\* writer.Seek(0, whence): a failed seek leaves the position where it was
DstSeek(d, whence, ok) ==
    [d EXCEPT !.pos = IF ~ok THEN d.pos
                      ELSE IF whence = "SeekStart" THEN 0 ELSE Len(d.bytes),
              !.seekLog = Append(d.seekLog, <<whence, ok>>)]

\* how much of its data a failing Write may have written
PartialLens(data) == {0, Len(data) \div 2}

NoWrites == [placeholder |-> 0, payload |-> 0, header |-> 0]

NoDecoder == [handle |-> "nil", SampleRate |-> 0, NumChannels |-> 0, SampleBitDepth |-> 0]

NoReturn == [totalBytes |-> 0, totalSamples |-> 0, sampleRate |-> 0, err |-> "none"]

DwStart ==
    [pc |-> "NewDecoder", decoder |-> NoDecoder, totalBytes |-> 0,
     n |-> 0, readErr |-> "nil", szIn |-> 0, decodedN |-> 0, pcmBuf |-> <<>>,
     decoded |-> <<>>, decErr |-> "nil", firstFormat |-> <<0, 0, "none">>,
     ret |-> NoReturn]

DwInit ==
    /\ dw = DwStart
    /\ src = [left |-> MaxSrcReads, eof |-> FALSE]
    /\ dst = [bytes |-> <<>>, pos |-> 0, writes |-> NoWrites, seekLog |-> <<>>]
    /\ eng \in { [fmt |-> f, produced |-> 0, handles |-> 0, deleted |-> 0] : f \in Formats }

\* return 0, 0, 0, err, then the deferred decoder.Close()
DwFail(err) ==
    /\ dw' = [dw EXCEPT !.pc = "done", !.ret = [NoReturn EXCEPT !.err = err],
                        !.decoder.handle = "nil"]
    /\ eng' = [eng EXCEPT !.deleted = eng.deleted + (IF dw.decoder.handle # "nil" THEN 1 ELSE 0)]

\* decoder, err := NewDecoder(); defer decoder.Close()
DwNewDecoder ==
    /\ dw.pc = "NewDecoder"
    /\ \E outcome \in {"ok", "not initialized", "new failed", "open feed failed", "param failed"} :
        IF outcome = "ok" THEN
            /\ dw' = [dw EXCEPT !.pc = "Read", !.decoder.handle = "open"]
            /\ eng' = [eng EXCEPT !.handles = eng.handles + 1]
        ELSE
            /\ dw' = [dw EXCEPT !.pc = "done", !.ret = [NoReturn EXCEPT !.err = outcome]]
            /\ eng' = IF outcome \in {"open feed failed", "param failed"}
                      THEN [eng EXCEPT !.handles = eng.handles + 1, !.deleted = eng.deleted + 1]
                      ELSE eng
    /\ UNCHANGED <<src, dst>>

\* n, readErr := inStream.Read(chunk)
DwRead ==
    /\ dw.pc = "Read"
    /\ \E n \in {0, 1, DecodeChunkSize} :
       \E readErr \in {"nil", "EOF", "ErrRead"} :
        /\ src.left = 0 => readErr # "nil"
        /\ src' = [left |-> IF src.left > 0 THEN src.left - 1 ELSE 0,
                   eof |-> readErr = "EOF"]
        /\ dw' = [dw EXCEPT !.n = n, !.readErr = readErr, !.szIn = 0,
                            !.pc = IF n > 0 THEN "Decode" ELSE "ReadErr"]
    /\ UNCHANGED <<dst, eng>>

NeedPlaceholderAlways(totalBytes) == TRUE

\* if totalBytes == 0 { write the placeholder header }
NeedPlaceholder(totalBytes) == totalBytes = 0

DecodeInputWholeChunk(n) == DecodeChunkSize

\* chunk[:n], by its length
DecodeInput(n) == n

\* decodedN, decErr := decoder.Decode(chunk[:n], pcmBuf)
DwDecode ==
    /\ dw.pc = "Decode"
    /\ \E o \in EngineAnswers :
       \E newFmt \in (IF HasNewFormat(o.reads) THEN Formats ELSE {eng.fmt}) :
        LET fmt == newFmt
            r == DecoderDecode(dw.decoder, DecodeInput(dw.n), DecoderEstimateOutBufBytes, o, fmt)
            made == SumDone(o.reads, 1)
            first == r.err = "nil" /\ r.n > 0 /\ dw.decoded = <<>>
        IN
        /\ IF r.err # "nil" THEN
               /\ dw' = [dw EXCEPT !.pc = "done", !.ret = [NoReturn EXCEPT !.err = r.err],
                                   !.decErr = r.err, !.szIn = DecodeInput(dw.n),
                                   !.decoder = [r.d EXCEPT !.handle = "nil"]]
               /\ eng' = [eng EXCEPT !.fmt = fmt, !.produced = eng.produced + made,
                                     !.deleted = eng.deleted + 1]
           ELSE
               /\ dw' = [dw EXCEPT !.decoder = r.d, !.decodedN = r.n,
                                   !.szIn = DecodeInput(dw.n),
                                   !.pcmBuf = Fresh(eng.produced, r.n),
                                   !.decoded = dw.decoded \o Fresh(eng.produced, r.n),
                                   !.firstFormat = IF first THEN fmt ELSE dw.firstFormat,
                                   !.pc = IF r.n > 0
                                          THEN IF NeedPlaceholder(dw.totalBytes)
                                               THEN "Placeholder" ELSE "Payload"
                                          ELSE "ReadErr"]
               /\ eng' = [eng EXCEPT !.fmt = fmt, !.produced = eng.produced + made]
    /\ UNCHANGED <<src, dst>>

\* writer.Write(headerBuf), headerBuf := make([]byte, WavHeaderSize)
DwWritePlaceholder ==
    /\ dw.pc = "Placeholder"
    /\ \E ok \in BOOLEAN :
       \E k \in PartialLens(Zeros(WavHeaderSize)) :
        /\ ok => k = 0
        /\ dst' = DstWrite(dst, "placeholder", Zeros(WavHeaderSize), ok, k)
        /\ IF ok THEN /\ dw' = [dw EXCEPT !.pc = "Payload"]
                      /\ UNCHANGED eng
           ELSE DwFail("write placeholder header failed: ErrWrite")
    /\ UNCHANGED src

\* writer.Write(pcmBuf[:decodedN]); totalBytes += decodedN
DwWritePayload ==
    /\ dw.pc = "Payload"
    /\ \E ok \in BOOLEAN :
       \E k \in PartialLens(dw.pcmBuf) :
        /\ ok => k = 0
        /\ dst' = DstWrite(dst, "payload", dw.pcmBuf, ok, k)
        /\ IF ok THEN /\ dw' = [dw EXCEPT !.pc = "ReadErr",
                                          !.totalBytes = dw.totalBytes + dw.decodedN]
                      /\ UNCHANGED eng
           ELSE DwFail("ErrWrite")
    /\ UNCHANGED src

NothingDecodedIgnored(totalBytes) == FALSE

\* if totalBytes == 0 { return 0, 0, 0, errors.New("no audio frames decoded") }
NothingDecoded(totalBytes) == totalBytes = 0

\* if readErr != nil { EOF: break; else return }; if totalBytes == 0 { return }
DwCheckRead ==
    /\ dw.pc = "ReadErr"
    /\ IF dw.readErr = "nil" THEN
           /\ dw' = [dw EXCEPT !.pc = "Read"]
           /\ UNCHANGED eng
       ELSE IF dw.readErr # "EOF" THEN DwFail(dw.readErr)
       ELSE IF NothingDecoded(dw.totalBytes) THEN DwFail("no audio frames decoded")
       ELSE /\ dw' = [dw EXCEPT !.pc = "SeekStart"]
            /\ UNCHANGED eng
    /\ UNCHANGED <<src, dst>>

SeekStartIgnoresError(ok) == FALSE

\* if _, err := writer.Seek(0, io.SeekStart); err != nil
SeekStartFailed(ok) == ~ok

\* writer.Seek(0, io.SeekStart)
DwSeekStart ==
    /\ dw.pc = "SeekStart"
    /\ \E ok \in BOOLEAN :
        /\ dst' = DstSeek(dst, "SeekStart", ok)
        /\ IF SeekStartFailed(ok) THEN DwFail("seek to start failed: ErrSeek")
           ELSE /\ dw' = [dw EXCEPT !.pc = "Header"]
                /\ UNCHANGED eng
    /\ UNCHANGED src

\* header := GenerateWavHeader(totalBytes, decoder.SampleRate, ...); writer.Write(header)
DwWriteHeader ==
    /\ dw.pc = "Header"
    /\ LET header == GenerateWavHeader(dw.totalBytes, dw.decoder.SampleRate,
                                       dw.decoder.NumChannels, dw.decoder.SampleBitDepth)
       IN  \E ok \in BOOLEAN :
           \E k \in PartialLens(header) :
            /\ ok => k = 0
            /\ dst' = DstWrite(dst, "header", header, ok, k)
            /\ IF ok THEN /\ dw' = [dw EXCEPT !.pc = "SeekEnd"]
                          /\ UNCHANGED eng
               ELSE DwFail("write real header failed: ErrWrite")
    /\ UNCHANGED src

\* totalSamples = totalBytes / (decoder.NumChannels * decoder.SampleBitDepth / 8)
TotalSamples(totalBytes, d) ==
    totalBytes \div ((d.NumChannels * d.SampleBitDepth) \div 8)

\* return totalBytes + WavHeaderSize, ...
TotalWithHeader(totalBytes) == totalBytes + WavHeaderSize

\* writer.Seek(0, io.SeekEnd), its result dropped; return ..., nil; decoder.Close()
DwSeekEndReturn ==
    /\ dw.pc = "SeekEnd"
    /\ \E ok \in BOOLEAN : dst' = DstSeek(dst, "SeekEnd", ok)
    /\ dw' = [dw EXCEPT !.pc = "done",
                        !.ret = [totalBytes |-> TotalWithHeader(dw.totalBytes),
                                 totalSamples |-> TotalSamples(dw.totalBytes, dw.decoder),
                                 sampleRate |-> dw.decoder.SampleRate,
                                 err |-> "nil"],
                        !.decoder.handle = "nil"]
    /\ eng' = [eng EXCEPT !.deleted = eng.deleted + 1]
    /\ UNCHANGED src

-----------------------------------------------------------------------------
(* EncodeFromWav (example/dec-exam.go) *)

\* chunkSize := 2048
EncodeChunkSize == 2048

\* most reads of the container that deliver no byte and no error
MaxEmptyReads == 1

\* a Go int that fits two bytes, as a number
IntOf(d) == d[1] + 256 * d[2]

Min(a, b) == IF a < b THEN a ELSE b

\* the fmt chunks of the containers encoded: the usual one, a sample rate of
\* 0, a channel count of 0, stereo, and samples of 8 bits
EwFmtChunks ==
    { Chunk(TagFmt, 16, FmtBody(1, f[1], f[2], f[3], <<>>)) :
        f \in { <<11025, 1, 16>>, <<0, 2, 16>>, <<11025, 0, 16>>, <<8000, 2, 16>>,
                <<11025, 2, 8>> } }

TagLIST == <<76, 73, 83, 84>>

\* a chunk that follows the payload
Trailer == Chunk(TagLIST, 2, <<120, 121>>)

\* the containers encoded: a payload followed by a trailing chunk, a payload
\* cut short of its declared length, a chunk to skip before the payload, an
\* empty payload, a container with no fmt chunk, and one that ends before a
\* data chunk
EwLayouts ==
    { <<f, Chunk(TagData, 5, <<101, 102, 103, 104, 105>>), Trailer>> : f \in EwFmtChunks }
    \cup { <<f, Chunk(TagData, 5, <<101, 102, 103>>)>> : f \in EwFmtChunks }
    \cup { <<f, Chunk(TagJUNK, 1, <<9>>), DataChunk>> : f \in EwFmtChunks }
    \cup { <<f, Chunk(TagData, 0, <<>>), Trailer>> : f \in EwFmtChunks }
    \cup { <<DataChunk>>, <<FmtPCM>> }

\* the configs handed to EncodeFromWav: nil, all zero, every field set, and
\* fields out of range
EwConfigs ==
    { NilConfig, ZeroConfig,
      [isNil |-> FALSE, SampleRate |-> GoInt(8000), NumChannels |-> GoInt(1),
       Bitrate |-> GoInt(320), Quality |-> GoInt(9), VbrMode |-> GoInt(3),
       MpegMode |-> GoInt(4)],
      [isNil |-> FALSE, SampleRate |-> GoInt(48000), NumChannels |-> GoInt(2),
       Bitrate |-> GoInt(0), Quality |-> GoInt(10), VbrMode |-> GoInt(0),
       MpegMode |-> GoInt(-1)] }

\* the offset of the payload in the stream: past the header of the first data chunk
PayloadAt(cs) == 12 + Len(ChunkBytes(SubSeq(cs, 1, DataIndex(cs) - 1), 1)) + 8

EwStart(cs, c) ==
    [pc |-> "ParseWavHeader", chunks |-> cs, stream |-> WavStream(TagRIFF \o <<0, 0, 0, 0>> \o TagWAVE, cs),
     caller |-> c, config |-> c, pos |-> 0,
     pcmSize |-> 0, sampleRate |-> 0, numChannels |-> 0, bitsPerSample |-> 0,
     limit |-> 0, emptyReads |-> 0, engine |-> <<>>,
     n |-> 0, readErr |-> "nil", inBuf |-> <<>>, encodedBytes |-> 0, outBuf |-> <<>>,
     then |-> "none",
     totalBytes |-> 0, log |-> <<>>, passed |-> <<>>, outputs |-> <<>>,
     ret |-> NoReturn]

EwInit ==
    ew \in { EwStart(cs, c) : cs \in EwLayouts, c \in EwConfigs }

EwFailKeepsTotal(e, err) ==
    [e EXCEPT !.pc = IF enc.handle # "nil" THEN "Close" ELSE "done",
              !.ret = [NoReturn EXCEPT !.err = err, !.totalBytes = e.totalBytes]]

EwFailSkipsClose(e, err) ==
    [e EXCEPT !.pc = "done", !.ret = [NoReturn EXCEPT !.err = err]]

\* return 0, 0, 0, err; the deferred encoder.Close() runs when a session exists
EwFail(e, err) ==
    [e EXCEPT !.pc = IF enc.handle # "nil" THEN "Close" ELSE "done",
              !.ret = [NoReturn EXCEPT !.err = err]]

UnsupportedBitsNever(bitsPerSample) == FALSE

\* if bitsPerSample != SampleBitDepth
UnsupportedBits(bitsPerSample) == bitsPerSample # SampleBitDepth

\* pcmSize, sampleRate, numChannels, bitsPerSample, err := ParseWavHeader(wavStream)
\* up to wavStream = io.LimitReader(wavStream, int64(pcmSize)); a nil config
\* is dereferenced by config.SampleRate = sampleRate
EwParseWavHeader ==
    /\ ew.pc = "ParseWavHeader"
    /\ LET p == ParseWavHeader(ew.stream)
           e == [ew EXCEPT !.pos = p.pos, !.log = Append(ew.log, "ParseWavHeader")]
       IN  ew' = IF p.err # "nil" THEN EwFail(e, p.err)
                 ELSE IF UnsupportedBits(p.bitsPerSample)
                 THEN EwFail(e, "unsupported bits per sample")
                 ELSE IF ew.config.isNil
                 THEN [e EXCEPT !.pc = "panicked", !.pcmSize = p.pcmSize,
                                !.sampleRate = p.sampleRate, !.numChannels = p.numChannels,
                                !.bitsPerSample = p.bitsPerSample]
                 ELSE [e EXCEPT !.pc = "NewEncoder", !.pcmSize = p.pcmSize,
                                !.sampleRate = p.sampleRate, !.numChannels = p.numChannels,
                                !.bitsPerSample = p.bitsPerSample,
                                !.config.SampleRate = GoInt(p.sampleRate),
                                !.config.NumChannels = GoInt(p.numChannels),
                                !.limit = p.pcmSize]
    /\ UNCHANGED <<enc, encLast, fedBytes, accepted, lame, dst>>

\* encoder, err := NewEncoder(config); defer encoder.Close()
EwNewEncoder ==
    /\ ew.pc = "NewEncoder"
    /\ \E h \in {"nil", "handle"} :
       \E failAt \in 0..Len(initParamsCalls(populateEncConfig(ew.config), FALSE)) :
           /\ (h = "nil" => failAt = 0)
           /\ LET r == NewEncoder(ew.config, h, failAt, -1)
                  e == [ew EXCEPT !.config = r.config, !.engine = r.log,
                                  !.log = Append(ew.log, "NewEncoder")]
              IN  /\ lame' = [lame EXCEPT !.closed = lame.closed + r.closed,
                                          !.inits = lame.inits + r.inits]
                  /\ IF r.err # "nil"
                     THEN /\ ew' = EwFail(e, r.err)
                          /\ UNCHANGED enc
                     ELSE /\ ew' = [e EXCEPT !.pc = "Read"]
                          /\ enc' = [handle |-> "open", remainData |-> <<>>,
                                     NumChannels |-> IntOf(r.enc.NumChannels)]
    /\ UNCHANGED <<encLast, fedBytes, accepted, dst>>

ReadWindowNotLimited(size, limit) == size

\* io.LimitReader: a read of size bytes asks the container for no more than
\* the bytes left of the limit
ReadWindow(size, limit) == Min(size, limit)

\* n, err := wavStream.Read(inBuf) on the LimitReader: nothing is read of the
\* container once the limit is used up; else the container delivers some of
\* the bytes it has left, at most the limit, with or without an error
EwRead ==
    /\ ew.pc = "Read"
    /\ LET avail == Len(ew.stream) - ew.pos
           most == Min(ReadWindow(EncodeChunkSize, ew.limit), avail)
       IN  \E n \in {0, 1, 2, most} :
           \E readErr \in {"nil", "EOF", "ErrRead"} :
               /\ n <= most
               /\ ew.limit <= 0 => readErr = "EOF"
               /\ (ew.limit > 0 /\ readErr = "EOF") => n = avail
               /\ (ew.limit > 0 /\ avail = 0) => readErr # "nil"
               /\ (n = 0 /\ readErr = "nil") => ew.emptyReads < MaxEmptyReads
               /\ ew' = [ew EXCEPT !.pc = IF n > 0 THEN "Encode" ELSE "ReadErr",
                                   !.n = n, !.readErr = readErr,
                                   !.inBuf = SubSeq(ew.stream, ew.pos + 1, ew.pos + n),
                                   !.pos = ew.pos + n, !.limit = ew.limit - n,
                                   !.emptyReads = ew.emptyReads
                                       + (IF n = 0 /\ readErr = "nil" THEN 1 ELSE 0),
                                   !.log = Append(ew.log, "Read")]
    /\ UNCHANGED <<enc, encLast, fedBytes, accepted, lame, dst>>

OutBufCapacityOfHalfChunk(NumChannels) ==
    EstimateOutBufBytes(NumChannels, EncodeChunkSize \div 2)

\* outBuf := make([]byte, encoder.EstimateOutBufBytes(chunkSize))
OutBufCapacity(NumChannels) == EstimateOutBufBytes(NumChannels, EncodeChunkSize)

\* the n bytes the engine puts into outBuf in the call number k of
\* EncodeFromWav: they carry the number of the call that made them
EngineOutput(n, k) == [i \in 1..n |-> k]

HasOutputNever(encodedBytes) == FALSE

\* if encodedBytes > 0 { totalBytes += encodedBytes; writer.Write(...) }
HasOutput(encodedBytes) == encodedBytes > 0

\* encodedBytes, encErr := encoder.Encode(inBuf[:n], outBuf)
EwEncode ==
    /\ ew.pc = "Encode"
    /\ \E nWr \in EncodeEngineResults(enc.handle) :
           EncoderEncode(ew.inBuf, OutBufCapacity(enc.NumChannels), nWr)
    /\ LET out == EngineOutput(encLast'.n, Len(ew.log) + 1)
           e == [ew EXCEPT !.passed = ew.passed \o ew.inBuf,
                           !.encodedBytes = encLast'.n,
                           !.outBuf = IF encLast'.n > 0 THEN out ELSE ew.outBuf,
                           !.outputs = IF encLast'.n > 0 THEN Append(ew.outputs, out)
                                       ELSE ew.outputs,
                           !.log = Append(ew.log, "Encode")]
       IN  ew' = IF encLast'.err # "nil" THEN EwFail(e, encLast'.err)
                 ELSE IF HasOutput(encLast'.n)
                 THEN [e EXCEPT !.pc = "Write", !.then = "ReadErr",
                                !.totalBytes = ew.totalBytes + encLast'.n]
                 ELSE [e EXCEPT !.pc = "ReadErr"]
    /\ UNCHANGED dst

\* writer.Write(outBuf[:encodedBytes]), after Encode and after Flush
EwWrite ==
    /\ ew.pc = "Write"
    /\ LET data == SubSeq(ew.outBuf, 1, ew.encodedBytes)
           e == [ew EXCEPT !.log = Append(ew.log, "Write")]
       IN  \E ok \in BOOLEAN :
           \E k \in PartialLens(data) :
               /\ dst' = DstWrite(dst, "payload", data, ok, k)
               /\ ew' = IF ok THEN [e EXCEPT !.pc = ew.then] ELSE EwFail(e, "ErrWrite")
    /\ UNCHANGED <<enc, encLast, fedBytes, accepted, lame>>

\* if err != nil { if err == io.EOF { break }; return 0, 0, 0, err }
EwCheckRead ==
    /\ ew.pc = "ReadErr"
    /\ ew' = IF ew.readErr = "nil" THEN [ew EXCEPT !.pc = "Read"]
             ELSE IF ew.readErr = "EOF" THEN [ew EXCEPT !.pc = "Flush"]
             ELSE EwFail(ew, ew.readErr)
    /\ UNCHANGED <<enc, encLast, fedBytes, accepted, lame, dst>>

\* encodedBytes, flushErr := encoder.Flush(outBuf)
EwFlush ==
    /\ ew.pc = "Flush"
    /\ \E bytesOut \in (IF lame.drained THEN DrainedFlushResults
                        ELSE FlushEngineResults(enc.handle)) :
           EncoderFlush(OutBufCapacity(enc.NumChannels), bytesOut)
    /\ LET out == EngineOutput(encLast'.n, Len(ew.log) + 1)
           e == [ew EXCEPT !.encodedBytes = encLast'.n,
                           !.outBuf = IF encLast'.n > 0 THEN out ELSE ew.outBuf,
                           !.outputs = IF encLast'.n > 0 THEN Append(ew.outputs, out)
                                       ELSE ew.outputs,
                           !.log = Append(ew.log, "Flush")]
       IN  ew' = IF encLast'.err # "nil" THEN EwFail(e, encLast'.err)
                 ELSE IF HasOutput(encLast'.n)
                 THEN [e EXCEPT !.pc = "Write", !.then = "GetFrameNum",
                                !.totalBytes = ew.totalBytes + encLast'.n]
                 ELSE [e EXCEPT !.pc = "GetFrameNum"]
    /\ UNCHANGED dst

\* totalFrames, err = encoder.GetFrameNum(); return totalBytes, totalFrames, sampleRate, nil
EwGetFrameNum ==
    /\ ew.pc = "GetFrameNum"
    /\ \E frameNum \in FrameNumEngineResults(enc.handle) : EncoderGetFrameNum(frameNum)
    /\ LET e == [ew EXCEPT !.log = Append(ew.log, "GetFrameNum")]
       IN  ew' = IF encLast'.err # "nil" THEN EwFail(e, encLast'.err)
                 ELSE [e EXCEPT !.pc = "Close",
                                !.ret = [totalBytes |-> ew.totalBytes,
                                         totalSamples |-> encLast'.n,
                                         sampleRate |-> ew.sampleRate,
                                         err |-> "nil"]]
    /\ UNCHANGED dst

\* most reads of the loop that fill most of inBuf
MaxLongReads == 2

\* what a read of the loop delivers: a few bytes, or inBuf full or nearly full
ShortReads == 1..4

LongReads == (EncodeChunkSize - 3)..EncodeChunkSize

\* the Encode call of the loop on a read of n bytes, the reads of the payload
\* so far having delivered Len(accepted) bytes
EwChunkEncode ==
    /\ enc.handle # "nil"
    /\ \E n \in ShortReads \cup LongReads :
           /\ n \in ShortReads => Len(accepted) % (EncodeChunkSize - 3) <= MaxTotal
           /\ n \in LongReads => Len(accepted) \div (EncodeChunkSize - 3) < MaxLongReads
           /\ \E nWr \in {-1, 0, 1} :
                  EncoderEncode(Fresh(Len(accepted), n), OutBufCapacity(enc.NumChannels), nWr)

\* the Flush call after the loop
EwChunkFlush ==
    /\ enc.handle # "nil"
    /\ encLast.op # "Flush"
    /\ \E bytesOut \in {-1, 0, 1} : EncoderFlush(OutBufCapacity(enc.NumChannels), bytesOut)

\* the deferred encoder.Close(), after the return values are set
EwClose ==
    /\ ew.pc = "Close"
    /\ EncoderClose
    /\ ew' = [ew EXCEPT !.pc = "done"]
    /\ UNCHANGED dst

-----------------------------------------------------------------------------
(* The components a specification does not run stay at these values *)

DwIdle ==
    /\ dw = [DwStart EXCEPT !.pc = "idle"]
    /\ src = [left |-> 0, eof |-> FALSE]
    /\ dst = [bytes |-> <<>>, pos |-> 0, writes |-> NoWrites, seekLog |-> <<>>]
    /\ eng = [fmt |-> <<0, 0, "none">>, produced |-> 0, handles |-> 0, deleted |-> 0]

HdIdle == hd = [pc |-> "idle"]

EncIdle ==
    /\ enc = [handle |-> "nil", remainData |-> <<>>, NumChannels |-> 2]
    /\ encLast = NoCall
    /\ fedBytes = <<>>
    /\ accepted = <<>>
    /\ lame = [drained |-> FALSE, closed |-> 0, inits |-> 0]

WavIdle == wav = [pc |-> "idle"]

DecIdle ==
    /\ dec = NoDecoder
    /\ decLast = [op |-> "idle"]

DrIdle == dr = [pc |-> "idle"]

OnceIdle == once = [pc |-> "idle"]

NeIdle == ne = [pc |-> "idle"]

EwIdle == ew = [pc |-> "idle"]

\* DecodeToWav is not running: no source, no destination
DwIdleStreams ==
    /\ dw = [DwStart EXCEPT !.pc = "idle"]
    /\ src = [left |-> 0, eof |-> FALSE]
    /\ dst = [bytes |-> <<>>, pos |-> 0, writes |-> NoWrites, seekLog |-> <<>>]

-----------------------------------------------------------------------------
(* Specification of one Encoder session *)

InitEnc == EncInit /\ DwIdle /\ HdIdle /\ WavIdle /\ DecIdle /\ DrIdle /\ OnceIdle /\ NeIdle /\ EwIdle

NextEnc ==
    \/ EncodeStep /\ UNCHANGED <<dwVars, hdVars, wavVars, decVars, drVars, onceVars, neVars, ewVars>>
    \/ FlushStep /\ UNCHANGED <<dwVars, hdVars, wavVars, decVars, drVars, onceVars, neVars, ewVars>>
    \/ CloseStep /\ UNCHANGED <<dwVars, hdVars, wavVars, decVars, drVars, onceVars, neVars, ewVars>>
    \/ EstimateStep /\ UNCHANGED <<dwVars, hdVars, wavVars, decVars, drVars, onceVars, neVars, ewVars>>
    \/ FrameNumStep /\ UNCHANGED <<dwVars, hdVars, wavVars, decVars, drVars, onceVars, neVars, ewVars>>

SpecEnc == InitEnc /\ [][NextEnc]_vars

(* Specification of the header round trip *)

InitHd == EncIdle /\ DwIdle /\ HdInit /\ WavIdle /\ DecIdle /\ DrIdle /\ OnceIdle /\ NeIdle /\ EwIdle

NextHd ==
    \/ HdGenerate /\ UNCHANGED <<encVars, dwVars, wavVars, decVars, drVars, onceVars, neVars, ewVars>>
    \/ HdParse /\ UNCHANGED <<encVars, dwVars, wavVars, decVars, drVars, onceVars, neVars, ewVars>>

SpecHd == InitHd /\ [][NextHd]_vars

(* Specification of ParseWavHeader on chunked streams *)

InitWav == EncIdle /\ DwIdle /\ HdIdle /\ WavInit /\ DecIdle /\ DrIdle /\ OnceIdle /\ NeIdle /\ EwIdle

NextWav ==
    \/ WavInsertChunk /\ UNCHANGED <<encVars, dwVars, hdVars, decVars, drVars, onceVars, neVars, ewVars>>
    \/ WavParse /\ UNCHANGED <<encVars, dwVars, hdVars, decVars, drVars, onceVars, neVars, ewVars>>

SpecWav == InitWav /\ [][NextWav]_vars

(* Specification of one ParseWavHeader call, pass by pass.  The call keeps *)
(* running until it returns.                                              *)

InitParse == EncIdle /\ DwIdle /\ HdIdle /\ PwInit /\ DecIdle /\ DrIdle /\ OnceIdle /\ NeIdle /\ EwIdle

NextParse ==
    \/ PwReadRiff /\ UNCHANGED <<encVars, dwVars, hdVars, decVars, drVars, onceVars, neVars, ewVars>>
    \/ PwReadChunk /\ UNCHANGED <<encVars, dwVars, hdVars, decVars, drVars, onceVars, neVars, ewVars>>

SpecParse == InitParse /\ [][NextParse]_vars /\ WF_vars(NextParse)

(* Specification of one Decoder session *)

InitDec == EncIdle /\ DwIdleStreams /\ HdIdle /\ WavIdle /\ DecInit /\ DrIdle /\ OnceIdle /\ NeIdle /\ EwIdle

NextDec ==
    \/ DecDecodeStep /\ UNCHANGED <<encVars, hdVars, wavVars, dw, src, dst, drVars, onceVars, neVars, ewVars>>
    \/ DecCloseStep /\ UNCHANGED <<encVars, hdVars, wavVars, dw, src, dst, drVars, onceVars, neVars, ewVars>>
    \/ DecEstimateStep /\ UNCHANGED <<encVars, hdVars, wavVars, dw, src, dst, drVars, onceVars, neVars, ewVars>>

SpecDec == InitDec /\ [][NextDec]_vars

(* Specification of one session, of an Encoder or of a Decoder *)

EncoderRuns == decLast.op = "idle"

InitSession ==
    /\ \/ EncInit /\ DwIdle /\ DecIdle
       \/ EncIdle /\ DwIdleStreams /\ DecInit
    /\ HdIdle /\ WavIdle /\ DrIdle /\ OnceIdle /\ NeIdle /\ EwIdle

NextSession ==
    \/ EncoderRuns /\ EncodeStep /\ UNCHANGED <<dwVars, hdVars, wavVars, decVars, drVars, onceVars, neVars, ewVars>>
    \/ EncoderRuns /\ FlushStep /\ UNCHANGED <<dwVars, hdVars, wavVars, decVars, drVars, onceVars, neVars, ewVars>>
    \/ EncoderRuns /\ CloseStep /\ UNCHANGED <<dwVars, hdVars, wavVars, decVars, drVars, onceVars, neVars, ewVars>>
    \/ EncoderRuns /\ FrameNumStep /\ UNCHANGED <<dwVars, hdVars, wavVars, decVars, drVars, onceVars, neVars, ewVars>>
    \/ ~EncoderRuns /\ DecDecodeStep /\ UNCHANGED <<encVars, hdVars, wavVars, dw, src, dst, drVars, onceVars, neVars, ewVars>>
    \/ ~EncoderRuns /\ DecCloseStep /\ UNCHANGED <<encVars, hdVars, wavVars, dw, src, dst, drVars, onceVars, neVars, ewVars>>

SpecSession == InitSession /\ [][NextSession]_vars

(* Specification of NewDecoder called from several goroutines *)

InitNew == EncIdle /\ DwIdle /\ HdIdle /\ WavIdle /\ DecIdle /\ DrIdle /\ OnceInit /\ NeIdle /\ EwIdle

NextNew ==
    \/ (\E p \in Goroutines : NdCall(p)) /\ UNCHANGED <<encVars, dwVars, hdVars, wavVars, decVars, drVars, neVars, ewVars>>
    \/ (\E p \in Goroutines : NdOnceDo(p)) /\ UNCHANGED <<encVars, dwVars, hdVars, wavVars, decVars, drVars, neVars, ewVars>>
    \/ (\E p \in Goroutines : NdInit(p)) /\ UNCHANGED <<encVars, dwVars, hdVars, wavVars, decVars, drVars, neVars, ewVars>>
    \/ (\E p \in Goroutines : NdSetInitialized(p)) /\ UNCHANGED <<encVars, dwVars, hdVars, wavVars, decVars, drVars, neVars, ewVars>>
    \/ (\E p \in Goroutines : NdOnceDone(p)) /\ UNCHANGED <<encVars, dwVars, hdVars, wavVars, decVars, drVars, neVars, ewVars>>
    \/ (\E p \in Goroutines : NdCheck(p)) /\ UNCHANGED <<encVars, dwVars, hdVars, wavVars, decVars, drVars, neVars, ewVars>>
    \/ (\E p \in Goroutines : NdNew(p)) /\ UNCHANGED <<encVars, dwVars, hdVars, wavVars, decVars, drVars, neVars, ewVars>>
    \/ (\E p \in Goroutines : NdOpenFeed(p)) /\ UNCHANGED <<encVars, dwVars, hdVars, wavVars, decVars, drVars, neVars, ewVars>>
    \/ (\E p \in Goroutines : NdParam(p)) /\ UNCHANGED <<encVars, dwVars, hdVars, wavVars, decVars, drVars, neVars, ewVars>>

SpecNew == InitNew /\ [][NextNew]_vars

(* Specification of one NewEncoder call *)

InitCfg == EncIdle /\ DwIdle /\ HdIdle /\ WavIdle /\ DecIdle /\ DrIdle /\ OnceIdle /\ NeInit /\ EwIdle

NextCfg == NeNewEncoder /\ UNCHANGED <<encVars, dwVars, hdVars, wavVars, decVars, drVars, onceVars, ewVars>>

SpecCfg == InitCfg /\ [][NextCfg]_vars

(* Specification of one Decode call, read by read.  The call keeps running, *)
(* and the engine does not answer MPG123_NEW_FORMAT for ever.                *)

InitDrain == EncIdle /\ DwIdle /\ HdIdle /\ WavIdle /\ DecIdle /\ DrInit /\ OnceIdle /\ NeIdle /\ EwIdle

NextDrain ==
    \/ DrFeed /\ UNCHANGED <<encVars, dwVars, hdVars, wavVars, decVars, onceVars, neVars, ewVars>>
    \/ DrReadNewFormat /\ UNCHANGED <<encVars, dwVars, hdVars, wavVars, decVars, onceVars, neVars, ewVars>>
    \/ DrReadOther /\ UNCHANGED <<encVars, dwVars, hdVars, wavVars, decVars, onceVars, neVars, ewVars>>
    \/ DrReturn /\ UNCHANGED <<encVars, dwVars, hdVars, wavVars, decVars, onceVars, neVars, ewVars>>

SpecDrain ==
    /\ InitDrain
    /\ [][NextDrain]_vars
    /\ WF_vars(NextDrain)
    /\ WF_vars(DrReadOther /\ UNCHANGED <<encVars, dwVars, hdVars, wavVars, decVars, onceVars, neVars, ewVars>>)

(* Specification of one DecodeToWav call *)

InitDw == EncIdle /\ DwInit /\ HdIdle /\ WavIdle /\ DecIdle /\ DrIdle /\ OnceIdle /\ NeIdle /\ EwIdle

NextDw ==
    \/ DwNewDecoder /\ UNCHANGED <<encVars, hdVars, wavVars, decVars, drVars, onceVars, neVars, ewVars>>
    \/ DwRead /\ UNCHANGED <<encVars, hdVars, wavVars, decVars, drVars, onceVars, neVars, ewVars>>
    \/ DwDecode /\ UNCHANGED <<encVars, hdVars, wavVars, decVars, drVars, onceVars, neVars, ewVars>>
    \/ DwWritePlaceholder /\ UNCHANGED <<encVars, hdVars, wavVars, decVars, drVars, onceVars, neVars, ewVars>>
    \/ DwWritePayload /\ UNCHANGED <<encVars, hdVars, wavVars, decVars, drVars, onceVars, neVars, ewVars>>
    \/ DwCheckRead /\ UNCHANGED <<encVars, hdVars, wavVars, decVars, drVars, onceVars, neVars, ewVars>>
    \/ DwSeekStart /\ UNCHANGED <<encVars, hdVars, wavVars, decVars, drVars, onceVars, neVars, ewVars>>
    \/ DwWriteHeader /\ UNCHANGED <<encVars, hdVars, wavVars, decVars, drVars, onceVars, neVars, ewVars>>
    \/ DwSeekEndReturn /\ UNCHANGED <<encVars, hdVars, wavVars, decVars, drVars, onceVars, neVars, ewVars>>

SpecDw == InitDw /\ [][NextDw]_vars

-----------------------------------------------------------------------------
(* Specification of one EncodeFromWav call *)

InitEw == EncIdle /\ DwIdle /\ HdIdle /\ WavIdle /\ DecIdle /\ DrIdle /\ OnceIdle /\ NeIdle /\ EwInit

NextEw ==
    \/ EwParseWavHeader /\ UNCHANGED <<dw, src, eng, hdVars, wavVars, decVars, drVars, onceVars, neVars>>
    \/ EwNewEncoder /\ UNCHANGED <<dw, src, eng, hdVars, wavVars, decVars, drVars, onceVars, neVars>>
    \/ EwRead /\ UNCHANGED <<dw, src, eng, hdVars, wavVars, decVars, drVars, onceVars, neVars>>
    \/ EwEncode /\ UNCHANGED <<dw, src, eng, hdVars, wavVars, decVars, drVars, onceVars, neVars>>
    \/ EwWrite /\ UNCHANGED <<dw, src, eng, hdVars, wavVars, decVars, drVars, onceVars, neVars>>
    \/ EwCheckRead /\ UNCHANGED <<dw, src, eng, hdVars, wavVars, decVars, drVars, onceVars, neVars>>
    \/ EwFlush /\ UNCHANGED <<dw, src, eng, hdVars, wavVars, decVars, drVars, onceVars, neVars>>
    \/ EwGetFrameNum /\ UNCHANGED <<dw, src, eng, hdVars, wavVars, decVars, drVars, onceVars, neVars>>
    \/ EwClose /\ UNCHANGED <<dw, src, eng, hdVars, wavVars, decVars, drVars, onceVars, neVars>>

SpecEw == InitEw /\ [][NextEw]_vars

-----------------------------------------------------------------------------
(* Specification of one call of either stream function: DecodeToWav or *)
(* EncodeFromWav runs, the other is idle                               *)

InitIo ==
    /\ \/ DwInit /\ EwIdle
       \/ DwIdle /\ EwInit
    /\ EncIdle /\ HdIdle /\ WavIdle /\ DecIdle /\ DrIdle /\ OnceIdle /\ NeIdle

NextIo ==
    \/ DwNewDecoder /\ UNCHANGED <<encVars, hdVars, wavVars, decVars, drVars, onceVars, neVars, ewVars>>
    \/ DwRead /\ UNCHANGED <<encVars, hdVars, wavVars, decVars, drVars, onceVars, neVars, ewVars>>
    \/ DwDecode /\ UNCHANGED <<encVars, hdVars, wavVars, decVars, drVars, onceVars, neVars, ewVars>>
    \/ DwWritePlaceholder /\ UNCHANGED <<encVars, hdVars, wavVars, decVars, drVars, onceVars, neVars, ewVars>>
    \/ DwWritePayload /\ UNCHANGED <<encVars, hdVars, wavVars, decVars, drVars, onceVars, neVars, ewVars>>
    \/ DwCheckRead /\ UNCHANGED <<encVars, hdVars, wavVars, decVars, drVars, onceVars, neVars, ewVars>>
    \/ DwSeekStart /\ UNCHANGED <<encVars, hdVars, wavVars, decVars, drVars, onceVars, neVars, ewVars>>
    \/ DwWriteHeader /\ UNCHANGED <<encVars, hdVars, wavVars, decVars, drVars, onceVars, neVars, ewVars>>
    \/ DwSeekEndReturn /\ UNCHANGED <<encVars, hdVars, wavVars, decVars, drVars, onceVars, neVars, ewVars>>
    \/ EwParseWavHeader /\ UNCHANGED <<dw, src, eng, hdVars, wavVars, decVars, drVars, onceVars, neVars>>
    \/ EwNewEncoder /\ UNCHANGED <<dw, src, eng, hdVars, wavVars, decVars, drVars, onceVars, neVars>>
    \/ EwRead /\ UNCHANGED <<dw, src, eng, hdVars, wavVars, decVars, drVars, onceVars, neVars>>
    \/ EwEncode /\ UNCHANGED <<dw, src, eng, hdVars, wavVars, decVars, drVars, onceVars, neVars>>
    \/ EwWrite /\ UNCHANGED <<dw, src, eng, hdVars, wavVars, decVars, drVars, onceVars, neVars>>
    \/ EwCheckRead /\ UNCHANGED <<dw, src, eng, hdVars, wavVars, decVars, drVars, onceVars, neVars>>
    \/ EwFlush /\ UNCHANGED <<dw, src, eng, hdVars, wavVars, decVars, drVars, onceVars, neVars>>
    \/ EwGetFrameNum /\ UNCHANGED <<dw, src, eng, hdVars, wavVars, decVars, drVars, onceVars, neVars>>
    \/ EwClose /\ UNCHANGED <<dw, src, eng, hdVars, wavVars, decVars, drVars, onceVars, neVars>>

SpecIo == InitIo /\ [][NextIo]_vars

-----------------------------------------------------------------------------
(* Specification of the Encode and Flush calls of EncodeFromWav on reads of *)
(* up to 2048 bytes                                                         *)

InitChunk == InitEnc

NextChunk ==
    \/ EwChunkEncode /\ UNCHANGED <<dwVars, hdVars, wavVars, decVars, drVars, onceVars, neVars, ewVars>>
    \/ EwChunkFlush /\ UNCHANGED <<dwVars, hdVars, wavVars, decVars, drVars, onceVars, neVars, ewVars>>

SpecChunk == InitChunk /\ [][NextChunk]_vars

-----------------------------------------------------------------------------
(* Specification of the four functions that create an engine handle: one   *)
(* NewEncoder call, NewDecoder calls from several goroutines, one          *)
(* EncodeFromWav call or one DecodeToWav call                              *)

InitHandles ==
    /\ \/ NeInit /\ OnceIdle /\ DwIdle /\ EwIdle
       \/ NeIdle /\ OnceInit /\ DwIdle /\ EwIdle
       \/ NeIdle /\ OnceIdle /\ DwInit /\ EwIdle
       \/ NeIdle /\ OnceIdle /\ DwIdle /\ EwInit
    /\ EncIdle /\ HdIdle /\ WavIdle /\ DecIdle /\ DrIdle

NewEncoderRuns == ne.pc # "idle"

NewDecoderRuns == once.pc # "idle"

NextHandles ==
    \/ NewEncoderRuns /\ NeNewEncoder /\ UNCHANGED <<encVars, dwVars, hdVars, wavVars, decVars, drVars, onceVars, ewVars>>
    \/ NewDecoderRuns /\ (\E p \in Goroutines : NdCall(p)) /\ UNCHANGED <<encVars, dwVars, hdVars, wavVars, decVars, drVars, neVars, ewVars>>
    \/ NewDecoderRuns /\ (\E p \in Goroutines : NdOnceDo(p)) /\ UNCHANGED <<encVars, dwVars, hdVars, wavVars, decVars, drVars, neVars, ewVars>>
    \/ NewDecoderRuns /\ (\E p \in Goroutines : NdInit(p)) /\ UNCHANGED <<encVars, dwVars, hdVars, wavVars, decVars, drVars, neVars, ewVars>>
    \/ NewDecoderRuns /\ (\E p \in Goroutines : NdSetInitialized(p)) /\ UNCHANGED <<encVars, dwVars, hdVars, wavVars, decVars, drVars, neVars, ewVars>>
    \/ NewDecoderRuns /\ (\E p \in Goroutines : NdOnceDone(p)) /\ UNCHANGED <<encVars, dwVars, hdVars, wavVars, decVars, drVars, neVars, ewVars>>
    \/ NewDecoderRuns /\ (\E p \in Goroutines : NdCheck(p)) /\ UNCHANGED <<encVars, dwVars, hdVars, wavVars, decVars, drVars, neVars, ewVars>>
    \/ NewDecoderRuns /\ (\E p \in Goroutines : NdNew(p)) /\ UNCHANGED <<encVars, dwVars, hdVars, wavVars, decVars, drVars, neVars, ewVars>>
    \/ NewDecoderRuns /\ (\E p \in Goroutines : NdOpenFeed(p)) /\ UNCHANGED <<encVars, dwVars, hdVars, wavVars, decVars, drVars, neVars, ewVars>>
    \/ NewDecoderRuns /\ (\E p \in Goroutines : NdParam(p)) /\ UNCHANGED <<encVars, dwVars, hdVars, wavVars, decVars, drVars, neVars, ewVars>>
    \/ DwNewDecoder /\ UNCHANGED <<encVars, hdVars, wavVars, decVars, drVars, onceVars, neVars, ewVars>>
    \/ DwRead /\ UNCHANGED <<encVars, hdVars, wavVars, decVars, drVars, onceVars, neVars, ewVars>>
    \/ DwDecode /\ UNCHANGED <<encVars, hdVars, wavVars, decVars, drVars, onceVars, neVars, ewVars>>
    \/ DwWritePlaceholder /\ UNCHANGED <<encVars, hdVars, wavVars, decVars, drVars, onceVars, neVars, ewVars>>
    \/ DwWritePayload /\ UNCHANGED <<encVars, hdVars, wavVars, decVars, drVars, onceVars, neVars, ewVars>>
    \/ DwCheckRead /\ UNCHANGED <<encVars, hdVars, wavVars, decVars, drVars, onceVars, neVars, ewVars>>
    \/ DwSeekStart /\ UNCHANGED <<encVars, hdVars, wavVars, decVars, drVars, onceVars, neVars, ewVars>>
    \/ DwWriteHeader /\ UNCHANGED <<encVars, hdVars, wavVars, decVars, drVars, onceVars, neVars, ewVars>>
    \/ DwSeekEndReturn /\ UNCHANGED <<encVars, hdVars, wavVars, decVars, drVars, onceVars, neVars, ewVars>>
    \/ EwParseWavHeader /\ UNCHANGED <<dw, src, eng, hdVars, wavVars, decVars, drVars, onceVars, neVars>>
    \/ EwNewEncoder /\ UNCHANGED <<dw, src, eng, hdVars, wavVars, decVars, drVars, onceVars, neVars>>
    \/ EwRead /\ UNCHANGED <<dw, src, eng, hdVars, wavVars, decVars, drVars, onceVars, neVars>>
    \/ EwEncode /\ UNCHANGED <<dw, src, eng, hdVars, wavVars, decVars, drVars, onceVars, neVars>>
    \/ EwWrite /\ UNCHANGED <<dw, src, eng, hdVars, wavVars, decVars, drVars, onceVars, neVars>>
    \/ EwCheckRead /\ UNCHANGED <<dw, src, eng, hdVars, wavVars, decVars, drVars, onceVars, neVars>>
    \/ EwFlush /\ UNCHANGED <<dw, src, eng, hdVars, wavVars, decVars, drVars, onceVars, neVars>>
    \/ EwGetFrameNum /\ UNCHANGED <<dw, src, eng, hdVars, wavVars, decVars, drVars, onceVars, neVars>>
    \/ EwClose /\ UNCHANGED <<dw, src, eng, hdVars, wavVars, decVars, drVars, onceVars, neVars>>

SpecHandles == InitHandles /\ [][NextHandles]_vars

-----------------------------------------------------------------------------
(* Properties of the Encoder session *)

\* C1: the blocks handed to the engine, followed by the carry-over, are the
\* accepted input bytes in call order - nothing dropped, duplicated, reordered
\* or padded, whatever Encode, Flush and Close calls were made - and the bytes
\* that have not reached the engine are fewer than one frame.
C1_AlignmentInvariant ==
    /\ fedBytes \o enc.remainData = accepted
    /\ Len(accepted) - Len(fedBytes) <= BytesPerSample(enc.NumChannels) - 1

\* C1 witness: an Encode call that found a carry-over, fed the engine and left
\* a new carry-over, followed by a Flush.
C1_Witness ==
    /\ encLast.op = "Flush" /\ encLast.engineCalled
    /\ Len(enc.remainData) > 0
    /\ Len(fedBytes) > 0
    /\ Len(accepted) = MaxTotal

\* C2: after every Encode call, failed or not, the carry-over holds 0 to
\* frameWidth-1 bytes.
C2_CarryBound ==
    encLast.op = "Encode" =>
        Len(enc.remainData) \in 0..(BytesPerSample(enc.NumChannels) - 1)

\* C2 witness: a stereo Encode call that leaves the largest carry-over, 3 bytes.
C2_Witness ==
    /\ encLast.op = "Encode" /\ encLast.err = "nil"
    /\ enc.NumChannels = 2
    /\ Len(encLast.carry) > 0
    /\ Len(enc.remainData) = BytesPerSample(2) - 1

\* the engine is only ever given a positive whole number of frames
EngineFedWholeFrames ==
    encLast.engineCalled /\ encLast.op = "Encode" =>
        /\ encLast.fedLen > 0
        /\ encLast.fedLen % BytesPerSample(enc.NumChannels) = 0

\* less than one frame at hand: 0 bytes, no error, no engine call, and all the
\* bytes kept as carry-over
KeptWhole ==
    /\ encLast.n = 0
    /\ encLast.err = "nil"
    /\ ~encLast.engineCalled
    /\ enc.remainData = encLast.carry \o encLast.in

\* C3 as stated: whenever carry-over plus input is less than one frame, Encode
\* returns 0 and no error and keeps the bytes.
C3_AsStated ==
    /\ EngineFedWholeFrames
    /\ (encLast.op = "Encode"
        /\ Len(encLast.carry) + Len(encLast.in) < BytesPerSample(enc.NumChannels))
       => KeptWhole

\* C3 amended: the same, for the calls whose input is not empty and whose
\* output capacity is at least EstimateOutBufBytes(len(input)).
C3_Amended ==
    /\ EngineFedWholeFrames
    /\ (encLast.op = "Encode"
        /\ Len(encLast.in) > 0
        /\ encLast.szOut >= EstimateOutBufBytes(enc.NumChannels, Len(encLast.in))
        /\ Len(encLast.carry) + Len(encLast.in) < BytesPerSample(enc.NumChannels))
       => KeptWhole

\* C3 witness: a stereo call that adds one byte to a one-byte carry-over.
C3_Witness ==
    /\ encLast.op = "Encode"
    /\ enc.NumChannels = 2
    /\ Len(encLast.carry) = 1 /\ Len(encLast.in) = 1
    /\ encLast.err = "nil"
    /\ Len(enc.remainData) = 2

\* C4 as stated: the capacity handed to the engine is at least the estimate
\* for the aligned bytes fed in that call, carry-over included.
C4_EngineCapacity ==
    encLast.op = "Encode" /\ encLast.engineCalled =>
        encLast.szOut >= EstimateOutBufBytes(enc.NumChannels, encLast.fedLen)

\* C14: an Encode call with a zero-length input returns EmptyInput, whatever
\* the carry-over and the output capacity, makes no engine call and leaves the
\* session - carry-over and engine - as it was.
C14_EmptyInput ==
    [][(encLast'.op = "Encode" /\ Len(encLast'.in) = 0) =>
           /\ encLast'.err = "EmptyInput" /\ encLast'.n = 0
           /\ ~encLast'.engineCalled
           /\ enc' = enc /\ fedBytes' = fedBytes /\ lame' = lame]_vars

\* C14 witness: an empty input is refused while a carry-over is held and the
\* output buffer is larger than the estimate.
C14_Witness ==
    /\ encLast.op = "Encode" /\ Len(encLast.in) = 0
    /\ Len(encLast.carry) > 0
    /\ encLast.szOut > EstimateOutBufBytes(enc.NumChannels, 0)
    /\ encLast.err = "EmptyInput"

\* the call just made had an output buffer below the estimate for its input
ShortOutput(call, NumChannels) ==
    \/ /\ call.op = "Encode" /\ Len(call.in) > 0
       /\ call.szOut < EstimateOutBufBytes(NumChannels, Len(call.in))
    \/ /\ call.op = "Flush"
       /\ call.szOut < EstimateOutBufBytes(NumChannels, 0)

\* C15: Encode with a non-empty input and Flush, given an output capacity
\* below the estimate, return OutputTooSmall, make no engine call (no retry
\* either) and leave the carry-over as it was.
C15_OutputTooSmall ==
    [][ShortOutput(encLast', enc.NumChannels) =>
           /\ encLast'.err = "OutputTooSmall" /\ encLast'.n = 0
           /\ ~encLast'.engineCalled
           /\ enc' = enc /\ fedBytes' = fedBytes /\ lame' = lame]_vars

\* C15 witness: a Flush with 7200 bytes of output is refused while a
\* carry-over is held.
C15_Witness ==
    /\ encLast.op = "Flush" /\ encLast.szOut = 7200
    /\ encLast.err = "OutputTooSmall"
    /\ Len(enc.remainData) > 0 /\ Len(fedBytes) > 0

\* C16: for an input of n bytes on a session of frame width w = channels x 2,
\* EstimateOutBufBytes(n) is floor(1.25 x (n div w + 1)) + 7200; it is 7201 for
\* n = 0 and is not below the estimate of any shorter input.
C16_Estimate ==
    encLast.op = "Estimate" =>
        LET n == encLast.inBytes
            x == (n \div (enc.NumChannels * 2)) + 1
        IN  /\ encLast.n = x + (x \div 4) + 7200
            /\ n = 0 => encLast.n = 7201
            /\ \A m \in (0..MaxEstimateIn) \cup LargeInputs :
                   m <= n => EstimateOutBufBytes(enc.NumChannels, m) <= encLast.n

\* C16 witness: the estimate for 4096 bytes of stereo input, 1025 frames.
C16_Witness ==
    /\ encLast.op = "Estimate"
    /\ enc.NumChannels = 2 /\ encLast.inBytes = 4096
    /\ encLast.n = 8481

-----------------------------------------------------------------------------
(* Properties of the WAV header *)

\* C10: parsing the bytes GenerateWavHeader produced gives back the payload
\* size, sample rate, channel count and bit depth it was given, with no error.
C10_HeaderRoundTrip ==
    hd.pc = "parsed" =>
        /\ hd.parsed.err = "nil"
        /\ hd.parsed.pcmSize = hd.pcmSize
        /\ hd.parsed.sampleRate = hd.sampleRate
        /\ hd.parsed.numChannels = hd.numChannels
        /\ hd.parsed.bitsPerSample = hd.bitsPerSample

\* C10 witness: the round trip of 44100 Hz, 2 channels, 16 bits, 88200 bytes.
C10_Witness ==
    /\ hd.pc = "parsed"
    /\ hd.parsed.err = "nil"
    /\ hd.parsed.pos = WavHeaderSize
    /\ hd.pcmSize = 88200 /\ hd.sampleRate = 44100
    /\ hd.numChannels = 2 /\ hd.bitsPerSample = 16

\* the field b holds the value whose digits are d, all of it
FieldHolds(b, d) ==
    /\ b = SubSeq(d, 1, Len(b))
    /\ \A i \in (Len(b) + 1)..Len(d) : d[i] = 0

\* the field b holds the low-order bytes of the value whose digits are d
FieldLow(b, d) == b = SubSeq(d, 1, Len(b))

\* the 44 bytes of hd.stream, field by field, each numeric field compared with
\* its value by Holds
HeaderLaidOut(Holds(_, _)) ==
    LET h == hd.stream
        rate == Digits(hd.sampleRate, IntWidth)
        chans == Digits(hd.numChannels, IntWidth)
        bits == Digits(hd.bitsPerSample, IntWidth)
        size == Digits(hd.pcmSize, IntWidth)
    IN  /\ Len(h) = 44
        /\ SubSeq(h, 1, 4) = <<82, 73, 70, 70>>
        /\ Holds(SubSeq(h, 5, 8), AddSmall(size, 36))
        /\ SubSeq(h, 9, 12) = <<87, 65, 86, 69>>
        /\ SubSeq(h, 13, 16) = <<102, 109, 116, 32>>
        /\ SubSeq(h, 17, 20) = <<16, 0, 0, 0>>
        /\ SubSeq(h, 21, 22) = <<1, 0>>
        /\ Holds(SubSeq(h, 23, 24), chans)
        /\ Holds(SubSeq(h, 25, 28), rate)
        /\ Holds(SubSeq(h, 29, 32), Div8(MulSmall(MulSmall(rate, hd.numChannels), hd.bitsPerSample)))
        /\ Holds(SubSeq(h, 33, 34), Div8(MulSmall(chans, hd.bitsPerSample)))
        /\ Holds(SubSeq(h, 35, 36), bits)
        /\ SubSeq(h, 37, 40) = <<100, 97, 116, 97>>
        /\ Holds(SubSeq(h, 41, 44), size)

\* the derived fields again, in plain integers, where the values are small
DerivedFieldsSmall ==
    (hd.pcmSize <= 16777216 /\ hd.sampleRate <= 65536 /\ hd.numChannels <= 256
     /\ hd.bitsPerSample <= 32) =>
        /\ Uint32(SubSeq(hd.stream, 5, 8)) = 36 + hd.pcmSize
        /\ Uint32(SubSeq(hd.stream, 29, 32)) =
               (hd.sampleRate * hd.numChannels * hd.bitsPerSample) \div 8
        /\ Uint16(SubSeq(hd.stream, 33, 34)) = (hd.numChannels * hd.bitsPerSample) \div 8
        /\ Uint32(SubSeq(hd.stream, 41, 44)) = hd.pcmSize

Rest(s, pos) == SubSeq(s, pos + 1, Len(s))

SameValues(a, b) ==
    /\ a.pcmSize = b.pcmSize /\ a.sampleRate = b.sampleRate
    /\ a.numChannels = b.numChannels /\ a.bitsPerSample = b.bitsPerSample
    /\ a.err = b.err /\ a.cause = b.cause

\* C12: with chunks that are neither "fmt " nor "data" inserted before the
\* data chunk, ParseWavHeader returns what it returns without them; when it
\* succeeds, it has read exactly 8 bytes plus the declared length more for
\* each inserted chunk, and the bytes left to read are the same payload.
C12_ChunkSkip ==
    wav.pc = "parsed" =>
        /\ SameValues(wav.parsed, wav.parsedBase)
        /\ wav.parsedBase.err = "nil" =>
               /\ wav.parsed.pos = wav.parsedBase.pos + wav.skipped
               /\ Rest(WavStream(wav.prologue, wav.chunks), wav.parsed.pos)
                    = Rest(WavStream(wav.prologue, wav.base), wav.parsedBase.pos)

\* C12 witness: a 1-byte chunk in front of the fmt chunk and a 10-byte chunk
\* between the fmt chunk and the data chunk, parsed with success.
C12_Witness ==
    /\ wav.pc = "parsed"
    /\ wav.parsed.err = "nil" /\ wav.parsed.sampleRate = 11025
    /\ Len(wav.chunks) = 4
    /\ wav.chunks[1].size = 1 /\ wav.chunks[2].tag = TagFmt
    /\ wav.chunks[3].size = 10 /\ wav.chunks[4].tag = TagData
    /\ wav.parsed.pos = 44 + 9 + 18
    /\ Rest(WavStream(wav.prologue, wav.chunks), wav.parsed.pos) = <<101, 102, 103>>

PrologueOk(prologue) ==
    SubSeq(prologue, 1, 4) = <<82, 73, 70, 70>> /\ SubSeq(prologue, 9, 12) = <<87, 65, 86, 69>>

\* the chunks ParseWavHeader gets to see: those up to the first data chunk
Scanned(cs) == IF DataIndex(cs) > 0 THEN 1..DataIndex(cs) ELSE 1..Len(cs)

IsFmt(c) == c.tag = <<102, 109, 116, 32>>

\* C13: success only with "RIFF" at offset 0, "WAVE" at offset 8 and a fmt
\* chunk of declared size 16 or more with format code 1 before the data chunk;
\* a data chunk with no fmt chunk before it, a format code other than 1, a
\* fmt chunk shorter than 16 bytes and a wrong prologue tag each give an error;
\* every error comes with all four values 0.
C13_SuccessOnlyIf ==
    wav.pc = "parsed" =>
        LET r == wav.parsed
            cs == wav.chunks
            di == DataIndex(cs)
        IN  /\ r.err = "nil" =>
                   /\ PrologueOk(wav.prologue)
                   /\ di > 0
                   /\ \E i \in 1..(di - 1) :
                          IsFmt(cs[i]) /\ cs[i].size >= 16 /\ Uint16(SubSeq(cs[i].body, 1, 2)) = 1
            /\ r.err # "nil" =>
                   r.pcmSize = 0 /\ r.sampleRate = 0 /\ r.numChannels = 0 /\ r.bitsPerSample = 0
            /\ ~PrologueOk(wav.prologue) => r.err = "invalid WAV header: missing RIFF/WAVE"
            /\ (PrologueOk(wav.prologue) /\ di > 0 /\ \A i \in 1..(di - 1) : ~IsFmt(cs[i])) =>
                   r.err = "data chunk found before fmt chunk"
            /\ (PrologueOk(wav.prologue) /\ \E i \in Scanned(cs) : IsFmt(cs[i]) /\ cs[i].size < 16) =>
                   r.err # "nil"
            /\ (PrologueOk(wav.prologue)
                /\ \E i \in Scanned(cs) :
                       IsFmt(cs[i]) /\ cs[i].size >= 16 /\ Uint16(SubSeq(cs[i].body, 1, 2)) # 1) =>
                   r.err # "nil"

\* C13 witness: a PCM fmt chunk followed by one that is not PCM, then data:
\* the parse fails although a valid fmt chunk was read.
C13_Witness ==
    /\ wav.pc = "parsed"
    /\ wav.base = <<FmtPCM, FmtFloat, DataChunk>>
    /\ PrologueOk(wav.prologue)
    /\ wav.inserted > 0
    /\ wav.parsed.err = "unsupported audio format"
    /\ wav.parsed.sampleRate = 0

-----------------------------------------------------------------------------
(* Properties of the Decoder session *)

\* the call fed nothing to the engine and left the session as it was
DecodeRefused(error) ==
    /\ decLast.err = error /\ decLast.n = 0
    /\ ~decLast.fed
    /\ dec = decLast.before

\* C18 as stated: Decode with an empty input returns EmptyInput, Decode with
\* an output capacity below 184320 returns OutputTooSmall, nothing being fed
\* and the cached format staying as it was; the estimate is 184320 whatever
\* format the session holds.
C18_AsStated ==
    /\ (decLast.op = "Decode" /\ decLast.szIn = 0) =>
           DecodeRefused("input buffer is empty")
    /\ (decLast.op = "Decode" /\ decLast.szOut < 184320) =>
           DecodeRefused("output buffer size is not enough")
    /\ decLast.op = "Estimate" => decLast.n = 184320

\* C18 amended: OutputTooSmall is the answer when the input is not empty; an
\* empty input gets EmptyInput whatever the capacity.
C18_Amended ==
    /\ (decLast.op = "Decode" /\ decLast.szIn = 0) =>
           DecodeRefused("input buffer is empty")
    /\ (decLast.op = "Decode" /\ decLast.szIn > 0 /\ decLast.szOut < 184320) =>
           DecodeRefused("output buffer size is not enough")
    /\ decLast.op = "Estimate" => decLast.n = 184320

\* C18 witness: a session that has cached a format refuses 2048 input bytes
\* for an output buffer of 184319 bytes.
C18_Witness ==
    /\ decLast.op = "Decode" /\ decLast.szIn = 2048 /\ decLast.szOut = 184319
    /\ decLast.err = "output buffer size is not enough"
    /\ dec.SampleRate # 0 /\ dec.handle # "nil"

CachedFormat(d) == <<d.SampleRate, d.NumChannels, d.SampleBitDepth>>

\* C19 as stated: the cached sample rate, channel count and bit depth are 0
\* until a Decode call has yielded output; the first call that does caches
\* the format the engine reports; no later Decode call changes them.
C19_FirstFormatCached ==
    /\ ~decLast.yielded => CachedFormat(dec) = <<0, 0, 0>>
    /\ (decLast.op = "Decode" /\ decLast.yielded /\ ~decLast.yieldedBefore) =>
           CachedFormat(dec) = <<decLast.reported[1], decLast.reported[2],
                                 EncodingBitDepth(decLast.reported[3])>>
    /\ (decLast.op = "Decode" /\ decLast.yieldedBefore) =>
           CachedFormat(dec) = CachedFormat(decLast.before)

\* C20 as stated: no Decode call returns a positive byte count and no error
\* while the cached bit depth is outside {8, 16, 24, 32}.
C20_NoOutputWithoutDepth ==
    (decLast.op = "Decode" /\ decLast.n > 0 /\ decLast.err = "nil") =>
        dec.SampleBitDepth \in {8, 16, 24, 32}

-----------------------------------------------------------------------------
(* Properties of NewEncoder *)

Supplied == IF ne.c.isNil THEN ZeroConfig ELSE ne.c

OrDefault(v, default) == IF IsZero(v) THEN GoInt(default) ELSE v

EffectiveQuality == IF Supplied.Quality \in { GoInt(k) : k \in 0..9 } THEN Supplied.Quality ELSE GoInt(2)

\* the engine was given v in every call of fn that was made
Given(fn, v) == \A i \in 1..Len(ne.ret.log) : ne.ret.log[i].fn = fn => ne.ret.log[i].arg = v

Called(fn) == \E i \in 1..Len(ne.ret.log) : ne.ret.log[i].fn = fn

SetQuality == IF IsZero(Supplied.VbrMode) THEN "lame_set_quality" ELSE "lame_set_VBR_quality"

\* each value as Seen(value) reaches the engine; the session takes the
\* effective channel count; only the engine refuses
ConfigReaches(Seen(_)) ==
    ne.pc = "returned" =>
        /\ Given("lame_set_in_samplerate", Seen(OrDefault(Supplied.SampleRate, 44100)))
        /\ Given("lame_set_num_channels", Seen(OrDefault(Supplied.NumChannels, 2)))
        /\ Given("lame_set_brate", Seen(OrDefault(Supplied.Bitrate, 128)))
        /\ Given(SetQuality, EffectiveQuality)
        /\ IsZero(Supplied.VbrMode) => Given("lame_set_VBR", GoInt(0))
        /\ ~IsZero(Supplied.VbrMode) => Given("lame_set_VBR", Seen(Supplied.VbrMode))
        /\ Given("lame_set_mode", Seen(SubOne(Supplied.MpegMode)))
        /\ ne.accepted =>
               /\ Called("lame_set_in_samplerate") /\ Called("lame_set_num_channels")
               /\ Called("lame_set_brate") /\ Called("lame_set_VBR") /\ Called(SetQuality)
        /\ ne.ret.err = "nil" =>
               /\ ne.accepted
               /\ ne.ret.enc.handle = "open"
               /\ ne.ret.enc.NumChannels = OrDefault(Supplied.NumChannels, 2)
        /\ ne.ret.err \notin {"nil", "none"} => ~ne.accepted

Unchanged(v) == v

\* C24 as stated: every supplied value that is not defaulted reaches the
\* engine unchanged, a stereo mode that is set included
C24_AsStated ==
    /\ ConfigReaches(Unchanged)
    /\ (ne.pc = "returned" /\ ne.accepted) =>
           (Called("lame_set_mode") <=> ~IsZero(Supplied.MpegMode))

\* C24: zero SampleRate, Bitrate, NumChannels become 44100, 128, 2 and a
\* Quality outside 0..9 becomes 2; every other value reaches the engine as the
\* C int of its low 32 bits; MpegMode reaches it, as the mode MpegMode - 1,
\* only when above 0; the wrapper itself refuses nothing and the session's
\* NumChannels is the effective channel count
C24_Amended ==
    /\ ConfigReaches(CInt)
    /\ (ne.pc = "returned" /\ ne.accepted) =>
           (Called("lame_set_mode") <=> IsPositive(Supplied.MpegMode))

\* C24 witness: a config with a sample rate too wide for a C int, no channel
\* count and a quality of 10 was accepted
C24_Witness ==
    /\ ne.pc = "returned"
    /\ ne.ret.err = "nil"
    /\ ne.c.SampleRate = Wide(44100)
    /\ ne.c.Quality = GoInt(10)
    /\ IsZero(ne.c.NumChannels)
    /\ ne.ret.log[1] = EngineCall("lame_set_in_samplerate", GoInt(44100))
    /\ ne.ret.enc.NumChannels = GoInt(2)

\* C25: NewEncoder with a nil config, or one whose fields are all zero,
\* succeeds when the engine accepts the parameters, the session configured
\* with 44100 Hz, 2 channels, bitrate 128 and quality 2
C25_DefaultsOnNilOrZero ==
    (ne.pc = "returned" /\ ne.accepted /\ (ne.c.isNil \/ ne.c = ZeroConfig)) =>
        /\ ~ne.ret.panic
        /\ ne.ret.err = "nil"
        /\ ne.ret.enc.handle = "open"
        /\ ne.ret.enc.NumChannels = GoInt(2)
        /\ Called("lame_set_in_samplerate") /\ Given("lame_set_in_samplerate", GoInt(44100))
        /\ Called("lame_set_num_channels") /\ Given("lame_set_num_channels", GoInt(2))
        /\ Called("lame_set_brate") /\ Given("lame_set_brate", GoInt(128))
        /\ Called("lame_set_quality") /\ Given("lame_set_quality", GoInt(2))

-----------------------------------------------------------------------------
(* Properties of NewDecoder *)

\* some NewDecoder call has returned to p with a Decoder, or got as far as mpg123_new
PastInitCheck(p) == once.g[p].pc \in {"new", "open_feed", "param"} \/ once.g[p].last = "nil"

\* C23: however concurrent NewDecoder calls interleave, mpg123_init runs at
\* most once, no handle is created before it has returned MPG123_OK, and when
\* it failed every NewDecoder call fails, mpg123_init not being run again
C23_InitOnce ==
    /\ once.inits <= 1
    /\ ~once.earlyHandle
    /\ once.handles > 0 => once.initResult = "MPG123_OK" /\ once.mpg123Initialized
    /\ once.initResult = "MPG123_ERR" =>
           /\ once.handles = 0
           /\ \A p \in Goroutines :
                  /\ ~PastInitCheck(p)
                  /\ once.g[p].last \in {"none", "mpg123 not initialized"}

\* C23 witness: the one initialization failed, and every call of every
\* goroutine, the later ones too, has failed
C23_Witness ==
    /\ once.inits = 1
    /\ once.initResult = "MPG123_ERR"
    /\ once.calls > NumGoroutines
    /\ \A p \in Goroutines :
           /\ once.g[p].pc = "idle"
           /\ once.g[p].last = "mpg123 not initialized"

-----------------------------------------------------------------------------
(* Properties of a session's handle *)

\* lame_close calls so far on the Encoder's handle, mpg123_delete calls on the Decoder's
Releases == IF EncoderRuns THEN lame.closed ELSE eng.deleted

SessionHandle == IF EncoderRuns THEN enc.handle ELSE dec.handle

\* the last call was a Close that found the handle released
LaterClose ==
    IF EncoderRuns THEN encLast.op = "Close" /\ ~encLast.engineCalled
    ELSE decLast.op = "Close" /\ decLast.before.handle = "nil"

\* C22: over any sequence of Close calls on an Encoder or Decoder session the
\* engine handle is released exactly once, by the first Close; a later Close
\* makes no engine call
C22_ReleasedOnce ==
    /\ Releases = (IF SessionHandle = "nil" THEN 1 ELSE 0)
    /\ LaterClose => Releases = 1

\* C22 witness: an Encoder session closed a second time after a Flush
C22_Witness ==
    /\ EncoderRuns
    /\ encLast.op = "Close"
    /\ ~encLast.engineCalled
    /\ encLast.afterFlush
    /\ lame.closed = 1

\* the loop has ended: mpg123_DecodeWrapped returned after at least one read
DrainEnded == dr.pc \in {"wrapped", "returned"} /\ dr.last.st # "none"

DrainEndings ==
    DrainEnded =>
        /\ dr.last.st \in {"MPG123_NEED_MORE", "MPG123_DONE"} =>
               dr.errNo = "MPG123_OK" /\ dr.bytesDecode = dr.counted + dr.last.done
        /\ dr.last.st = "MPG123_OK" =>
               dr.last.done = 0 /\ dr.errNo = "MPG123_OK" /\ dr.bytesDecode = dr.counted
        /\ dr.last.st # "MPG123_NEW_FORMAT"
        /\ dr.last.st = "MPG123_ERR" =>
               /\ dr.errNo = "MPG123_ERR"
               /\ dr.pc = "returned" => dr.n = 0 /\ dr.err = "MPG123_ERR"

\* a read answered MPG123_NEW_FORMAT is followed by another read, with the
\* count and the space left as they were
DrainRetries ==
    (dr.pc = "read" /\ dr'.last.st = "MPG123_NEW_FORMAT" /\ dr'.tick # dr.tick) =>
        dr'.pc = "read" /\ dr'.bytesDecode = dr.bytesDecode /\ dr'.outSize = dr.outSize

\* C21: the drain loop of Decode ends whenever the engine does not answer
\* format-changed for ever: with success and the bytes of the last read
\* counted on need-more-input or stream-done, with success on OK with zero
\* bytes, with another read on format-changed, and on any other status with
\* that error, Decode returning 0 bytes
C21_DrainTerminates ==
    /\ []DrainEndings
    /\ [][DrainRetries]_vars
    /\ (dr.pc = "read") ~> (dr.pc = "returned")

\* C21 witness: a loop that retried on format-changed, counted the bytes of an
\* OK read and ended on need-more-input with the last bytes counted
C21_Witness ==
    /\ dr.pc = "returned"
    /\ dr.retried
    /\ dr.last = [st |-> "MPG123_NEED_MORE", done |-> 1]
    /\ dr.counted > 0
    /\ dr.n = dr.counted + 1
    /\ dr.err = "nil"

-----------------------------------------------------------------------------
(* Properties of DecodeToWav *)

IsPrefix(a, b) == Len(a) <= Len(b) /\ a = SubSeq(b, 1, Len(a))

NumWrites == dst.writes.placeholder + dst.writes.payload + dst.writes.header

DwSucceeded == dw.pc = "done" /\ dw.ret.err = "nil"

C6_ReturnValues ==
    DwSucceeded =>
        LET P == Len(dst.bytes) - WavHeaderSize
            f == dw.firstFormat
        IN  /\ dw.ret.totalBytes = P + 44
            /\ dw.ret.totalSamples = P \div ((f[2] * EncodingBitDepth(f[3])) \div 8)
            /\ dw.ret.sampleRate = f[1]

\* C6 witness: a successful call whose engine changed format after the first
\* output and whose payload is not a whole number of frames.
C6_Witness ==
    /\ DwSucceeded
    /\ eng.fmt # dw.firstFormat
    /\ dw.firstFormat[2] = 2
    /\ (Len(dst.bytes) - WavHeaderSize) % 4 # 0

NoAudioOutcome ==
    /\ dst.bytes = <<>> /\ dst.pos = 0
    /\ NumWrites = 0
    /\ dst.seekLog = <<>>

\* C7 as stated: the source has ended and no Decode call yielded a byte, so
\* the call fails with "no audio frames decoded", nothing written or sought.
C7_AsStated ==
    (dw.pc = "done" /\ src.eof /\ dw.decoded = <<>>) =>
        /\ dw.ret.err = "no audio frames decoded"
        /\ NoAudioOutcome

\* C7 amended: the same when every Decode call succeeded; when the Decode call
\* on the bytes delivered together with end-of-stream failed, that error is
\* returned instead, again with nothing written or sought.
C7_Amended ==
    (dw.pc = "done" /\ src.eof /\ dw.decoded = <<>>) =>
        /\ dw.ret.err = IF dw.decErr = "nil" THEN "no audio frames decoded" ELSE dw.decErr
        /\ dw.ret.totalBytes = 0 /\ dw.ret.totalSamples = 0 /\ dw.ret.sampleRate = 0
        /\ NoAudioOutcome

\* C7 witness: the source ended after a chunk was decoded to nothing.
C7_Witness ==
    /\ dw.pc = "done" /\ src.eof /\ dw.decoded = <<>>
    /\ dw.n > 0 /\ dw.decErr = "nil"
    /\ dw.ret.err = "no audio frames decoded"

\* C8: when the seek back to offset 0 fails, the call returns an error and
\* the real header is not written (the header bytes stay zero).
C8_SeekStartFailure ==
    (dst.seekLog # <<>> /\ dst.seekLog[1] = <<"SeekStart", FALSE>>) =>
        /\ dw.pc = "done"
        /\ dw.ret.err \notin {"nil", "none"}
        /\ dw.ret.totalBytes = 0
        /\ dst.writes.header = 0
        /\ dst.bytes = Zeros(WavHeaderSize) \o dw.decoded

\* C8 witness: the first seek failed after payload was streamed.
C8_Witness ==
    /\ dst.seekLog = << <<"SeekStart", FALSE>> >>
    /\ dst.writes.payload = 2
    /\ dw.pc = "done"

\* C9 as stated: on success the destination is positioned at the end of the
\* written data, offset 44 + payload bytes.
C9_PositionAtEnd ==
    DwSucceeded => dst.pos = WavHeaderSize + dw.totalBytes

-----------------------------------------------------------------------------
(* Properties of EncodeFromWav *)

\* the format the container declares, read from the body of its fmt chunk
ContainerRate == Uint32(SubSeq(ew.chunks[1].body, 5, 8))

ContainerChannels == Uint16(SubSeq(ew.chunks[1].body, 3, 4))

\* EncodeFromWav holds an encoder session
EwSession == ew.pc \in {"Read", "Encode", "Write", "ReadErr", "Flush", "GetFrameNum", "Close"}

\* the engine was given v in a call of fn, and in every call of fn
EwGiven(fn, v) ==
    /\ \E i \in 1..Len(ew.engine) : ew.engine[i].fn = fn
    /\ \A i \in 1..Len(ew.engine) : ew.engine[i].fn = fn => ew.engine[i].arg = v

FromContainer(call) == call.fn \in {"lame_set_in_samplerate", "lame_set_num_channels"}

NotFromContainer(call) == ~FromContainer(call)

\* the caller's bitrate, quality, VBR mode and stereo mode are the ones
\* NewEncoder is given, and reach the engine as NewEncoder hands them on
CallerFieldsKept ==
    /\ \A f \in {"Bitrate", "Quality", "VbrMode", "MpegMode"} :
           ew.config[f] = populateEncConfig(ew.caller)[f]
    /\ SelectSeq(ew.engine, NotFromContainer)
         = SelectSeq(initParamsCalls(populateEncConfig(ew.caller), FALSE), NotFromContainer)

\* C26 as stated: the session of EncodeFromWav is configured with the sample
\* rate and the channel count of the container, whatever the caller's config
\* holds in these two fields, and the caller's bitrate, quality, VBR mode and
\* stereo mode are the ones the session is created with
C26_ContainerWins ==
    EwSession =>
        /\ EwGiven("lame_set_in_samplerate", GoInt(ContainerRate))
        /\ EwGiven("lame_set_num_channels", GoInt(ContainerChannels))
        /\ enc.NumChannels = ContainerChannels
        /\ CallerFieldsKept

\* the same for the containers that declare a sample rate and a channel count
\* other than 0
ContainerWinsWhenNonZero ==
    (EwSession /\ ContainerRate # 0 /\ ContainerChannels # 0) =>
        /\ EwGiven("lame_set_in_samplerate", GoInt(ContainerRate))
        /\ EwGiven("lame_set_num_channels", GoInt(ContainerChannels))
        /\ enc.NumChannels = ContainerChannels
        /\ CallerFieldsKept

\* a session was created for a container that declares a sample rate of 0
SessionForRateZero == EwSession /\ ContainerRate = 0

\* the payload of the container: the bytes that follow the header of the data
\* chunk, as many as it declares or as the stream has
Payload ==
    LET at == PayloadAt(ew.chunks)
        declared == ew.chunks[DataIndex(ew.chunks)].size
    IN  SubSeq(ew.stream, at + 1, Min(at + declared, Len(ew.stream)))

\* the header is parsed and accepted
EwParsed == ew.pc = "NewEncoder" \/ EwSession

\* EncodeFromWav returned without an error
EwSucceeded == ew.pc = "done" /\ ew.ret.err = "nil"

\* C27: the bytes passed to Encode are the bytes that follow the data chunk
\* header, in order: parsing stops at the first payload byte, what is read
\* afterwards is handed to Encode as read, nothing is read past the declared
\* payload length, and a call that succeeds has passed the whole payload
C27_PayloadOnly ==
    /\ (ew.pc = "NewEncoder") => ew.pos = PayloadAt(ew.chunks)
    /\ (EwParsed \/ EwSucceeded) =>
           /\ ew.pos <= PayloadAt(ew.chunks) + ew.pcmSize
           /\ ew.pcmSize = ew.chunks[DataIndex(ew.chunks)].size
           /\ IsPrefix(ew.passed, Payload)
           /\ ew.pc = "Encode" => IsPrefix(ew.passed \o ew.inBuf, Payload)
           /\ ew.pc # "Encode" => ew.pos = PayloadAt(ew.chunks) + Len(ew.passed)
    /\ EwSucceeded => ew.passed = Payload

\* C27 witness: a payload of five bytes followed by a trailing chunk was
\* encoded in more than one read, and the trailing chunk was left unread
C27_Witness ==
    /\ EwSucceeded
    /\ ew.passed = <<101, 102, 103, 104, 105>>
    /\ ew.chunks[Len(ew.chunks)] = Trailer
    /\ ew.pos = Len(ew.stream) - 10
    /\ Len(SelectSeq(ew.log, LAMBDA op : op = "Encode")) > 1

\* the places of op in the log of the calls EncodeFromWav made
Places(op) == { i \in 1..Len(ew.log) : ew.log[i] = op }

RECURSIVE Concat(_, _)
\* the sequences of ss from number i on, one after the other
Concat(ss, i) == IF i > Len(ss) THEN <<>> ELSE ss[i] \o Concat(ss, i + 1)

\* C28: in a successful EncodeFromWav Flush is called once, after the last
\* Encode and the last read, the frame count is queried once and after Flush,
\* the destination holds the outputs of the Encode calls that were not empty
\* in call order and then the output of Flush, each written by one Write,
\* and the total returned is the number of bytes written
C28_FlushOnceLast ==
    EwSucceeded =>
        /\ Cardinality(Places("Flush")) = 1
        /\ Cardinality(Places("GetFrameNum")) = 1
        /\ \A f \in Places("Flush") :
               /\ \A i \in Places("Encode") \cup Places("Read") : i < f
               /\ \A g \in Places("GetFrameNum") : f < g
               /\ \A k \in 1..Len(ew.outputs) :
                      /\ ew.log[ew.outputs[k][1]] \in {"Encode", "Flush"}
                      /\ k < Len(ew.outputs) =>
                             /\ ew.outputs[k][1] < ew.outputs[k + 1][1]
                             /\ ew.log[ew.outputs[k][1]] = "Encode"
               /\ ew.encodedBytes > 0 =>
                      ew.outputs[Len(ew.outputs)] = EngineOutput(ew.encodedBytes, f)
               /\ ew.encodedBytes = 0 =>
                      \A k \in 1..Len(ew.outputs) : ew.outputs[k][1] # f
        /\ dst.bytes = Concat(ew.outputs, 1)
        /\ dst.writes.payload = Len(ew.outputs)
        /\ Cardinality(Places("Write")) = Len(ew.outputs)
        /\ ew.ret.totalBytes = Len(dst.bytes)

\* C28 witness: three outputs were written, the last of them made by Flush,
\* and of three or more Encode calls at least one produced none
C28_Witness ==
    /\ EwSucceeded
    /\ Len(ew.outputs) = 3
    /\ Cardinality(Places("Encode")) > 2
    /\ ew.ret.totalBytes = 3
    /\ ew.log[ew.outputs[3][1]] = "Flush"

\* C29 as stated: the sample rate a successful EncodeFromWav returns is the
\* sample rate its session was configured with
C29_ReturnedRateUsed ==
    EwSucceeded => EwGiven("lame_set_in_samplerate", GoInt(ew.ret.sampleRate))

\* the same for the containers that declare a sample rate other than 0
ReturnedRateUsedWhenNonZero ==
    (EwSucceeded /\ ContainerRate # 0) =>
        EwGiven("lame_set_in_samplerate", GoInt(ew.ret.sampleRate))

\* a container that declares 0 Hz was encoded: 0 is returned, 44100 was used
ReturnedRateZero ==
    /\ EwSucceeded
    /\ ew.ret.sampleRate = 0
    /\ EwGiven("lame_set_in_samplerate", GoInt(44100))

-----------------------------------------------------------------------------
(* Properties of the failures of EncodeFromWav and DecodeToWav *)

ReadError(err) == err \notin {"nil", "EOF"}

\* the call has set its return values to a failure
EwReturning == ew.pc \in {"Close", "done"} /\ ew.ret.err \notin {"none", "nil"}

DwReturning == dw.pc = "done" /\ dw.ret.err \notin {"none", "nil"}

\* the last read of the call failed
EwReadFailed == ew.pc \notin {"idle", "ParseWavHeader", "NewEncoder"} /\ ReadError(ew.readErr)

DwReadFailed == dw.pc # "idle" /\ ReadError(dw.readErr)

\* a step of the call that reads nothing, calls no codec function but Close
\* and leaves the destination as it is
EwNothingMore == ew'.log = ew.log /\ ew'.pos = ew.pos /\ dst' = dst /\ fedBytes' = fedBytes

DwNothingMore ==
    /\ src' = src /\ dst' = dst
    /\ dw.pc \notin {"Read", "Decode", "Placeholder", "Payload", "SeekStart", "Header"}

ZeroCounts(ret) == ret.totalBytes = 0 /\ ret.totalSamples = 0 /\ ret.sampleRate = 0

\* no step takes bytes away from the destination
NothingTruncated ==
    /\ Len(dst'.bytes) >= Len(dst.bytes)
    /\ (EwReturning \/ DwReturning) => dst' = dst

AbortsAtFirstFailure ==
    /\ (EwReadFailed \/ EwReturning) => EwNothingMore
    /\ (DwReadFailed \/ DwReturning) => DwNothingMore
    /\ EwReturning' => ZeroCounts(ew'.ret) /\ (ReadError(ew'.readErr) => ew'.ret.err = ew'.readErr)
    /\ DwReturning' => ZeroCounts(dw'.ret) /\ (ReadError(dw'.readErr) => dw'.ret.err = dw'.readErr)
    /\ NothingTruncated

\* C30 as stated: in EncodeFromWav and DecodeToWav no read, codec call or
\* write follows the first failing read, codec call or write; the call
\* returns that failure with the three counts 0, and the bytes written to the
\* destination stay as they are
C30_AsStated == [][AbortsAtFirstFailure]_vars

\* what a call may still do once a read has failed: when the read delivered
\* bytes, one codec call on these bytes and the writes of its output
EwAfterFailedRead ==
    /\ ew'.pos = ew.pos
    /\ \/ ew'.log = ew.log
       \/ ew.pc = "Encode" /\ ew.n > 0 /\ ew'.log = Append(ew.log, "Encode")
             /\ encLast'.in = ew.inBuf
       \/ ew.pc = "Write" /\ ew.then = "ReadErr" /\ ew'.log = Append(ew.log, "Write")

DwAfterFailedRead ==
    /\ src' = src
    /\ dw.pc \in {"Decode", "Placeholder", "Payload", "ReadErr"}
    /\ dw.pc # "ReadErr" => dw.n > 0

\* the failure returned is the one of the step that returns: the codec's, the
\* write's, or the read's when the bytes of the failed read went through
EwReturnsFailure ==
    /\ ZeroCounts(ew'.ret)
    /\ ew.pc = "ReadErr" => ew'.ret.err = ew.readErr
    /\ ew.pc \in {"Encode", "Flush"} => ew'.ret.err = encLast'.err
    /\ ew.pc = "Write" => ew'.ret.err = "ErrWrite"

DwReturnsFailure ==
    /\ ZeroCounts(dw'.ret)
    /\ (dw.pc = "ReadErr" /\ ReadError(dw.readErr)) => dw'.ret.err = dw.readErr
    /\ dw.pc = "Decode" => dw'.ret.err = dw'.decErr
    /\ dw.pc = "Payload" => dw'.ret.err = "ErrWrite"

AbortsAfterFailure ==
    /\ EwReturning => EwNothingMore
    /\ DwReturning => DwNothingMore
    /\ (EwReadFailed /\ ~EwReturning) => EwAfterFailedRead
    /\ (DwReadFailed /\ ~DwReturning) => DwAfterFailedRead
    /\ (~EwReturning /\ EwReturning') => EwReturnsFailure
    /\ (~DwReturning /\ DwReturning') => DwReturnsFailure
    /\ NothingTruncated

\* C30: once a codec call or a write has failed, or a read has failed that
\* delivered no bytes, the call reads nothing, calls nothing of the codec but
\* the deferred Close and writes nothing; a read that fails after delivering
\* bytes has these bytes passed to the codec and the output written before
\* the call returns, and no read follows it; the call returns the failure of
\* that codec call or write when one fails, else the read's, with the three
\* counts 0, and the destination keeps every byte written
C30_Amended == [][AbortsAfterFailure]_vars

\* C30 witness: EncodeFromWav returned the failure of a read whose bytes were
\* encoded and whose output was written after the read had failed
C30_Witness ==
    /\ ew.pc = "done"
    /\ ew.readErr = "ErrRead" /\ ew.ret.err = "ErrRead"
    /\ ZeroCounts(ew.ret)
    /\ Len(ew.log) >= 3
    /\ SubSeq(ew.log, Len(ew.log) - 2, Len(ew.log)) = <<"Read", "Encode", "Write">>
    /\ dst.bytes # <<>>

\* the same in DecodeToWav: the chunk of a failed read was decoded and written
DwFailedReadWritten ==
    /\ dw.pc = "done"
    /\ dw.readErr = "ErrRead" /\ dw.ret.err = "ErrRead"
    /\ dw.decoded # <<>>
    /\ src.left = MaxSrcReads - 1

-----------------------------------------------------------------------------
(* Properties of the errors of the streams *)

\* the error the stream produced in the read that made ParseWavHeader fail,
\* "nil" when it failed for another reason
ParseCause == ParseWavHeader(ew.stream).cause

\* a seek was made in this step, and it failed with ErrSeek
SeekFailedNow ==
    /\ Len(dst'.seekLog) = Len(dst.seekLog) + 1
    /\ ~dst'.seekLog[Len(dst'.seekLog)][2]

\* a step in which a read, a write or a seek of a stream fails is followed by
\* the return of the stream's own error
IoUnwrapped ==
    /\ (ew.pc = "ParseWavHeader" /\ ew'.pc # "ParseWavHeader" /\ ParseCause # "nil") =>
           EwReturning' /\ ew'.ret.err = ParseCause
    /\ (ew.pc = "ReadErr" /\ ReadError(ew.readErr)) => EwReturning' /\ ew'.ret.err = ew.readErr
    /\ (ew.pc = "Write" /\ EwReturning') => ew'.ret.err = "ErrWrite"
    /\ (dw.pc = "ReadErr" /\ ReadError(dw.readErr)) => DwReturning' /\ dw'.ret.err = dw.readErr
    /\ (dw.pc \in {"Placeholder", "Payload", "Header"} /\ DwReturning') =>
           dw'.ret.err = "ErrWrite"
    /\ SeekFailedNow => DwReturning' /\ dw'.ret.err = "ErrSeek"

\* C31 as stated: when a read of the source, a write or a seek of the
\* destination fails in EncodeFromWav, DecodeToWav or ParseWavHeader, the
\* call returns the error the stream produced, and the operation is not made
\* again
C31_IoUnwrapped == [][IoUnwrapped]_vars

\* the same for the reads of the two loops and the writes of codec output,
\* the operations whose error is returned as it is
LoopIoUnwrapped ==
    /\ (ew.pc = "ReadErr" /\ ReadError(ew.readErr)) => EwReturning' /\ ew'.ret.err = ew.readErr
    /\ (ew.pc = "Write" /\ EwReturning') => ew'.ret.err = "ErrWrite"
    /\ (dw.pc = "ReadErr" /\ ReadError(dw.readErr)) => DwReturning' /\ dw'.ret.err = dw.readErr
    /\ (dw.pc = "Payload" /\ DwReturning') => dw'.ret.err = "ErrWrite"

LoopIoUnwrappedAlways == [][LoopIoUnwrapped]_vars

\* the last seek of DecodeToWav failed and the call returned no error
SeekEndFailureDropped ==
    /\ dw.pc = "done" /\ dw.ret.err = "nil"
    /\ dst.seekLog # <<>>
    /\ dst.seekLog[Len(dst.seekLog)] = <<"SeekEnd", FALSE>>

-----------------------------------------------------------------------------
(* Properties of the engine's statuses *)

\* the table of toError
ErrorTable ==
    /\ toError(-1) = "ErrorBufferTooSmall"
    /\ toError(-2) = "ErrorMalloc"
    /\ toError(-3) = "ErrorParamsNotInitialized"
    /\ toError(-4) = "ErrorPsychoAcousticProblems"
    /\ \A errNo \in (StatusCodes \cup 0..2) \ {-4, -3, -2, -1} : toError(errNo) = "ErrorUnknown"

\* C32: toError maps -1, -2, -3, -4 to the four named kinds and every other
\* status to the unknown kind; a status below 0 that the engine answers in
\* Encode, Flush or GetFrameNum is returned as its kind with a result of 0,
\* and a status of 0 or more as the result with no error; no block is fed to
\* the engine a second time, whatever it answered
C32_StatusTable ==
    /\ ErrorTable
    /\ (encLast.op \in {"Encode", "Flush", "GetFrameNum"} /\ encLast.engineCalled) =>
           /\ encLast.status < 0 => encLast.n = 0 /\ encLast.err = toError(encLast.status)
           /\ encLast.status < 0 => encLast.err \in
                  {"ErrorBufferTooSmall", "ErrorMalloc", "ErrorParamsNotInitialized",
                   "ErrorPsychoAcousticProblems", "ErrorUnknown"}
           /\ encLast.status \notin {-4, -3, -2, -1} /\ encLast.status < 0 =>
                  encLast.err = "ErrorUnknown"
           /\ encLast.status >= 0 => encLast.n = encLast.status /\ encLast.err = "nil"
           /\ encLast.op = "Encode" => encLast.fedLen > 0
    /\ fedBytes \o enc.remainData = accepted

\* C32 witness: the engine answered a status outside the table to an Encode
\* call that fed it a block, and the call returned the unknown kind
C32_Witness ==
    /\ encLast.op = "Encode"
    /\ encLast.status = -6
    /\ encLast.err = "ErrorUnknown"
    /\ encLast.n = 0
    /\ encLast.fedLen > 0

-----------------------------------------------------------------------------
(* Properties of the output buffer of EncodeFromWav *)

-----------------------------------------------------------------------------
(* Properties of the calls made on a closed session *)

\* the last call on the session was made after Close and reached the engine
EncoderCallAfterClose ==
    /\ EncoderRuns
    /\ enc.handle = "nil"
    /\ encLast.op \in {"Encode", "Flush", "GetFrameNum"}
    /\ encLast.engineCalled

DecoderCallAfterClose ==
    /\ ~EncoderRuns
    /\ decLast.op = "Decode"
    /\ decLast.before.handle = "nil"
    /\ decLast.fed

\* C34 as stated: once Close has run on a session, a later Encode, Flush,
\* GetFrameNum or Decode on it makes no engine call
C34_NoCallAfterClose == ~EncoderCallAfterClose /\ ~DecoderCallAfterClose

-----------------------------------------------------------------------------
(* Properties of the engine handles *)

\* 1 when the condition holds, else 0
Count(b) == IF b THEN 1 ELSE 0

\* NewEncoder (enc.go:363) has returned: the handle lame_init gave is inside
\* the returned session, or was given to lame_close once, and a session is
\* returned exactly with a nil error
NewEncoderHandles ==
    (ne.pc = "returned" /\ ne.file = "enc.go:363") =>
        /\ ne.ret.inits = ne.ret.closed + Count(ne.ret.enc.handle # "nil")
        /\ (ne.ret.enc.handle # "nil") <=> (ne.ret.err = "nil")

\* the goroutines of NewDecoder that hold a handle not yet returned
NdHolding == { p \in Goroutines : once.g[p].pc \in {"open_feed", "param"} }

\* NewDecoder: every handle mpg123_new gave is held by a call still running,
\* was returned inside a session, or was given to mpg123_delete once
NewDecoderHandles ==
    NewDecoderRuns =>
        once.handles = once.deleted + once.sessions + Cardinality(NdHolding)

\* EncodeFromWav: the handle of its session is open while the session is in
\* use and was given to lame_close once when the function has returned
EncodeFromWavHandles ==
    ew.pc # "idle" =>
        /\ lame.inits = lame.closed + Count(enc.handle # "nil")
        /\ lame.inits <= 1
        /\ ew.pc \in {"done", "panicked"} => enc.handle = "nil"

\* DecodeToWav: the same for the handle of its decoder
DecodeToWavHandles ==
    dw.pc # "idle" =>
        /\ eng.handles = eng.deleted + Count(dw.decoder.handle # "nil")
        /\ eng.handles <= 1
        /\ dw.pc = "done" => dw.decoder.handle = "nil"

\* C35: no engine handle leaks or is released twice: a handle NewEncoder or
\* NewDecoder created is returned inside a session or released exactly once
\* before the constructor returns its error, and EncodeFromWav and
\* DecodeToWav release the handle of their session exactly once on every
\* return path.
C35_HandlesReleasedOnce ==
    /\ NewEncoderHandles
    /\ NewDecoderHandles
    /\ EncodeFromWavHandles
    /\ DecodeToWavHandles

\* EncodeFromWav failed in a write after its session had encoded a chunk, and
\* has returned with the handle released
C35_Witness ==
    /\ ew.pc = "done"
    /\ ew.ret.err = "ErrWrite"
    /\ lame.inits = 1 /\ lame.closed = 1

\* NewEncoder released the handle because initParams failed
NewEncoderReleased ==
    /\ ne.pc = "returned" /\ ne.file = "enc.go:363"
    /\ ne.ret.inits = 1 /\ ne.ret.closed = 1 /\ ne.ret.err # "nil"

\* NewDecoder returned one session and released the handle of a failed call
NewDecoderReleased ==
    /\ NewDecoderRuns
    /\ once.sessions = 1 /\ once.deleted = 1 /\ NdHolding = {}

\* DecodeToWav failed after its session was made and released the handle
DecodeToWavReleased ==
    /\ dw.pc = "done" /\ dw.ret.err # "nil"
    /\ eng.handles = 1 /\ eng.deleted = 1

-----------------------------------------------------------------------------
(* Properties of the output space of Decode *)

\* v bytes fit the buffer the caller of Decode provided
FitsOut(v) == dr.szOutHigh > 0 \/ v <= dr.szOut

\* the space a coming mpg123_read is given is the part of out not yet
\* counted, never more
GivenUnusedSpace ==
    /\ dr.outSize >= 0
    /\ dr.szOutHigh = 0 => dr.outSize = dr.szOut - dr.bytesDecode

ReadsWithinCapacity ==
    /\ dr.pc = "read" => GivenUnusedSpace
    /\ dr.pc \in {"read", "wrapped", "returned"} => FitsOut(dr.bytesDecode)
    /\ dr.pc = "returned" => FitsOut(dr.n)

\* C36: within one Decode call the byte count reported as decoded never
\* exceeds the output capacity the caller provided: each engine read is given
\* only the space still unused, so the sum of the bytes of all reads of the
\* drain loop stays within the output buffer.
C36_ReadsWithinCapacity == dr.pc # "idle" => ReadsWithinCapacity

\* the same for the buffers of less than 2^31 bytes
ReadsWithinCapacityBelow2G == (dr.pc # "idle" /\ dr.szOutHigh = 0) => ReadsWithinCapacity

\* reads have filled the whole buffer, and Decode returned its capacity
OutFilled ==
    /\ dr.pc = "returned" /\ dr.szOutHigh = 0
    /\ dr.n = dr.szOut /\ dr.err = "nil"
    /\ dr.counted > 0

\* a read is given more than the space of a buffer of 2^31 + 184320 bytes
ReadGivenTooMuch ==
    /\ dr.pc = "read" /\ dr.szOutHigh = 1
    /\ dr.outSize < 0

-----------------------------------------------------------------------------
(* Properties of the format DecodeToWav writes *)

\* the bit depths getFormat stores
DecodedBitDepths == {8, 16, 24, 32}

\* DecodeToWav is at the real-header write or past it
AtRealHeader == dw.pc \in {"Header", "SeekEnd"} \/ DwSucceeded

\* the header fields at the start of the destination: channels, sample rate,
\* byte rate, block align, bits per sample
HeaderFormatFields ==
    << Uint16(SubSeq(dst.bytes, 23, 24)), Uint32(SubSeq(dst.bytes, 25, 28)),
       Uint32(SubSeq(dst.bytes, 29, 32)), Uint16(SubSeq(dst.bytes, 33, 34)),
       Uint16(SubSeq(dst.bytes, 35, 36)) >>

\* C37: whenever DecodeToWav reaches the real-header write, the decoder's
\* cached sample rate and channel count are non-zero and its bit depth is one
\* of 8, 16, 24, 32, so the divisor channels x bitDepth / 8 of the sample
\* count is not zero and the real header carries no zero format field.
C37_FormatKnownAtHeader ==
    AtRealHeader =>
        /\ dw.decoder.SampleRate # 0
        /\ dw.decoder.NumChannels # 0
        /\ dw.decoder.SampleBitDepth \in DecodedBitDepths
        /\ (dw.decoder.NumChannels * dw.decoder.SampleBitDepth) \div 8 # 0
        /\ dst.writes.header > 0 =>
               /\ \A i \in 1..5 : HeaderFormatFields[i] # 0
               /\ HeaderFormatFields[1] = dw.decoder.NumChannels
               /\ HeaderFormatFields[2] = dw.decoder.SampleRate
               /\ HeaderFormatFields[5] = dw.decoder.SampleBitDepth

\* C37 witness: the real header of a mono stream of 8-bit samples was
\* written, the divisor being 1
C37_Witness ==
    /\ DwSucceeded
    /\ dst.writes.header = 1
    /\ dw.decoder.NumChannels = 1 /\ dw.decoder.SampleBitDepth = 8
    /\ dw.ret.totalSamples = dw.totalBytes

\* a call whose stream has an encoding getFormat refuses ends with that
\* error, the destination untouched
UnsupportedEncodingEnds ==
    /\ dw.pc = "done" /\ dw.ret.err = "unsupported encoding"
    /\ dw.decoder.SampleRate # 0 /\ dw.decoder.SampleBitDepth = 0
    /\ dst.bytes = <<>>

-----------------------------------------------------------------------------
(* Properties of the bit-depth check of EncodeFromWav *)

\* the container parses and its samples are not 16 bits wide
OtherBitDepth ==
    LET p == ParseWavHeader(ew.stream)
    IN  p.err = "nil" /\ p.bitsPerSample # SampleBitDepth

RejectedForBits == ew.pc = "done" /\ ew.ret.err = "unsupported bits per sample"

\* C38: EncodeFromWav rejects a container whose bits-per-sample is not 16
\* with an error, before an encoder session is created, before any payload
\* byte is read and without writing anything to the destination or modifying
\* the caller's config.
C38_OtherBitDepthRejected ==
    ew.pc # "idle" =>
        /\ RejectedForBits => OtherBitDepth
        /\ (OtherBitDepth /\ ew.pc # "ParseWavHeader") =>
               /\ RejectedForBits
               /\ ew.ret.totalBytes = 0 /\ ew.ret.totalSamples = 0 /\ ew.ret.sampleRate = 0
               /\ ew.log = <<"ParseWavHeader">>
               /\ lame.inits = 0 /\ lame.closed = 0 /\ ew.engine = <<>>
               /\ enc.handle = "nil"
               /\ ew.pos = PayloadAt(ew.chunks) /\ ew.passed = <<>>
               /\ dst.bytes = <<>> /\ NumWrites = 0 /\ dst.seekLog = <<>>
               /\ ew.config = ew.caller

\* C38 witness: a container of 8-bit samples with payload was rejected, the
\* caller's config holding a rate other than the container's
C38_Witness ==
    /\ RejectedForBits
    /\ ~ew.caller.isNil /\ ew.caller.SampleRate = GoInt(8000)
    /\ ParseWavHeader(ew.stream).sampleRate = 11025
    /\ ew.pos < Len(ew.stream)

\* a nil config with such a container is rejected too, the config not touched
NilConfigRejectedForBits == RejectedForBits /\ ew.caller.isNil

-----------------------------------------------------------------------------
(* Properties of the end of ParseWavHeader *)

PwReturned == wav.pc = "returned"

\* the stream ends before the header of the data chunk of its chunk list is
\* complete, or the list has no data chunk
EndsBeforeData ==
    \/ DataIndex(wav.chunks) = 0
    \/ Len(wav.stream) < PayloadAt(wav.chunks)

\* success is returned by the pass that read a data chunk header, the stream
\* standing right behind that header
SuccessAtDataHeader ==
    (PwReturned /\ wav.result.err = "nil") =>
        /\ Len(wav.read) = 8 /\ SubSeq(wav.read, 1, 4) = TagData
        /\ wav.pos >= 8 /\ wav.pos <= Len(wav.stream)
        /\ SubSeq(wav.stream, wav.pos - 7, wav.pos) = wav.read
        /\ wav.result.pos = wav.pos
        /\ wav.result.pcmSize = Uint32(SubSeq(wav.read, 5, 8))
        /\ wav.f.fmtChunkFound

\* while the loop runs nothing is returned, and what it has read is inside
\* the stream
RunningInsideStream ==
    wav.pc \in {"riff", "chunk"} =>
        wav.result = NoParse /\ wav.pos <= Len(wav.stream)

TruncatedFails == (PwReturned /\ EndsBeforeData) => wav.result.err \notin {"nil", "none"}

\* C39: ParseWavHeader terminates on every finite input stream: it returns
\* success only at the moment a data chunk header has been read, and a stream
\* that ends before a data chunk header is complete (in the prologue, a chunk
\* header, the fmt body or a skipped chunk body) yields an error, never
\* success and never an endless loop.
C39_ParseTerminates ==
    /\ (wav.pc \in {"riff", "chunk"}) ~> PwReturned
    /\ [](SuccessAtDataHeader /\ RunningInsideStream /\ TruncatedFails)

\* C39 witness: the stream ended in the body of a skipped chunk, after the
\* fmt chunk was read, and the call returned the error of the skip
C39_Witness ==
    /\ PwReturned
    /\ wav.result.err = "skip chunk failed"
    /\ wav.f.fmtChunkFound
    /\ wav.pos = Len(wav.stream)

\* the errors of the four places a stream may end in
TruncationErrors ==
    {"read RIFF header failed", "read chunk header failed", "read fmt chunk failed",
     "skip chunk failed"}

\* the stream ended in the prologue, in a chunk header, in the fmt body
PwEndedInPrologue == PwReturned /\ wav.result.err = "read RIFF header failed"

PwEndedInChunkHeader == PwReturned /\ wav.result.err = "read chunk header failed"

PwEndedInFmtBody == PwReturned /\ wav.result.err = "read fmt chunk failed"

\* a whole stream parsed after two chunks were skipped
PwSkippedTwo ==
    /\ PwReturned /\ wav.result.err = "nil"
    /\ Len(wav.chunks) = 4

\* the passes return what ParseWavHeader returns on the stream
PassesAgree == PwReturned => wav.result = ParseWavHeader(wav.stream)

-----------------------------------------------------------------------------
(* Properties of the bytes a read delivers *)

\* the payload bytes the source has delivered to EncodeFromWav
EwDelivered == SubSeq(ew.stream, PayloadAt(ew.chunks) + 1, ew.pos)

\* every byte delivered was passed to Encode, in order, or is the chunk the
\* coming Encode call is given; the outputs made are written when the result
\* of the read is looked at
EwAllPassed ==
    EwSession =>
        /\ EwDelivered = ew.passed \o (IF ew.pc = "Encode" THEN ew.inBuf ELSE <<>>)
        /\ ew.pc = "Encode" => ew.n > 0 /\ Len(ew.inBuf) = ew.n
        /\ ew.pc = "ReadErr" => dst.bytes = Concat(ew.outputs, 1)

\* the step after a read: Encode on the bytes delivered, whatever came with
\* them, the output written before the result of the read is looked at; no
\* codec call when nothing was delivered
EwChunkProcessed ==
    /\ ew.pc = "Read" =>
           /\ ew'.n > 0 => ew'.pc = "Encode"
           /\ ew'.n = 0 => ew'.pc = "ReadErr" /\ encLast' = encLast /\ ew'.passed = ew.passed
    /\ ew.pc = "Encode" =>
           /\ encLast'.op = "Encode" /\ encLast'.in = ew.inBuf
           /\ (encLast'.err = "nil" /\ encLast'.n > 0) =>
                  ew'.pc = "Write" /\ ew'.then = "ReadErr"
           /\ (encLast'.err = "nil" /\ encLast'.n = 0) => ew'.pc = "ReadErr"
    /\ (ew.pc = "Write" /\ ew'.pc # "Close") =>
           /\ dst'.bytes = dst.bytes \o SubSeq(ew.outBuf, 1, ew.encodedBytes)
           /\ ew'.pc = ew.then
    /\ (ew.pc = "ReadErr" /\ ew.n = 0 /\ ew.readErr = "nil") =>
           ew'.pc = "Read" /\ ew'.log = ew.log

\* the same in DecodeToWav: Decode on the n bytes delivered, the placeholder
\* and the payload written before the result of the read is looked at
DwChunkProcessed ==
    /\ dw.pc = "Read" =>
           /\ dw'.n > 0 => dw'.pc = "Decode"
           /\ dw'.n = 0 => dw'.pc = "ReadErr" /\ eng' = eng /\ dw'.decoder = dw.decoder
    /\ dw.pc = "Decode" =>
           /\ dw'.szIn = dw.n
           /\ (dw'.decErr = "nil" /\ dw'.decodedN > 0) => dw'.pc \in {"Placeholder", "Payload"}
           /\ (dw'.decErr = "nil" /\ dw'.decodedN = 0) => dw'.pc = "ReadErr"
    /\ (dw.pc = "Placeholder" /\ dw'.pc # "done") => dw'.pc = "Payload"
    /\ (dw.pc = "Payload" /\ dw'.pc # "done") =>
           /\ dst'.bytes = dst.bytes \o dw.pcmBuf
           /\ dw'.pc = "ReadErr"
    /\ (dw.pc = "ReadErr" /\ dw.n = 0 /\ dw.readErr = "nil") =>
           dw'.pc = "Read" /\ eng' = eng /\ dst' = dst

DwAllPassed ==
    /\ dw.pc = "Decode" => dw.n > 0
    /\ dw.pc \in {"Placeholder", "Payload"} => dw.szIn = dw.n /\ dw.n > 0
    /\ (dw.pc = "ReadErr" /\ dw.n > 0) => dw.szIn = dw.n
    /\ (dw.pc = "ReadErr" /\ dw.decoded # <<>>) =>
           dst.bytes = Zeros(WavHeaderSize) \o dw.decoded

\* C40: in EncodeFromWav and DecodeToWav the bytes a read returns together
\* with end-of-stream or with a read error are still passed to the codec, and
\* their output written, before the loop ends or the error is returned; a
\* read that returns 0 bytes and no error makes no codec call; no byte the
\* source delivered is skipped.
C40_DeliveredBytesProcessed ==
    [][EwAllPassed /\ EwChunkProcessed /\ DwAllPassed /\ DwChunkProcessed]_vars

\* C40 witness: the last bytes of the payload came together with
\* end-of-stream, were encoded and their output written, and EncodeFromWav
\* succeeded with the whole payload passed
C40_Witness ==
    /\ EwSucceeded
    /\ ew.readErr = "EOF" /\ ew.n > 0
    /\ ew.passed = Payload /\ Len(ew.passed) > ew.n
    /\ \E i \in 1..(Len(ew.log) - 2) :
           SubSeq(ew.log, i, i + 2) = <<"Read", "Encode", "Write">> /\ ew.log[i + 3] = "Flush"

\* the same in DecodeToWav: bytes that came with end-of-stream were decoded
\* and written, and the call succeeded
DwEofChunkWritten ==
    /\ DwSucceeded
    /\ dw.n > 0 /\ dw.szIn = dw.n /\ dw.decodedN > 0
    /\ src.left = MaxSrcReads - 1

\* a read of 0 bytes and no error was followed by another read
EwEmptyReadPassedOver ==
    /\ ew.pc = "Read" /\ ew.emptyReads > 0
    /\ ew.log[Len(ew.log)] = "Read"

=============================================================================
